---- MODULE Spec2Model ----
(***************************************************************************)
(* Issue deduplication and lifecycle engine of the AI review pipeline:     *)
(*   actions/ai-review/scripts/ai_review_to_issues.py   (converter)        *)
(*   actions/verify-fixes/scripts/ai_verify_fixes.py    (verifier)         *)
(*   actions/ai-review/scripts/cleanup_duplicates.py   (duplicate sweep)  *)
(* Text is modelled as sequences of one-character strings, so that the     *)
(* normalisations, regular expressions and the similarity ratio are        *)
(* computed, not assumed.  Hash digests are modelled as the tagged tuple   *)
(* of the hashed components (an injective hash).                           *)
(***************************************************************************)
EXTENDS Naturals, Integers, Sequences, FiniteSets, TLC

(***************************************************************************)
(* Characters                                                              *)
(***************************************************************************)
\* the emoji U+1F534 of the title prefix "[AI] <red circle>", one character
RedCircle == "<U+1F534>"

LowerLetters ==
  {"a","b","c","d","e","f","g","h","i","j","k","l","m",
   "n","o","p","q","r","s","t","u","v","w","x","y","z"}

UpperLetters ==
  {"A","B","C","D","E","F","G","H","I","J","K","L","M",
   "N","O","P","Q","R","S","T","U","V","W","X","Y","Z"}

Digits == {"0","1","2","3","4","5","6","7","8","9"}

\* str.lower() on one character
LowerMap ==
  [c \in UpperLetters |->
     CASE c = "A" -> "a" [] c = "B" -> "b" [] c = "C" -> "c" [] c = "D" -> "d"
       [] c = "E" -> "e" [] c = "F" -> "f" [] c = "G" -> "g" [] c = "H" -> "h"
       [] c = "I" -> "i" [] c = "J" -> "j" [] c = "K" -> "k" [] c = "L" -> "l"
       [] c = "M" -> "m" [] c = "N" -> "n" [] c = "O" -> "o" [] c = "P" -> "p"
       [] c = "Q" -> "q" [] c = "R" -> "r" [] c = "S" -> "s" [] c = "T" -> "t"
       [] c = "U" -> "u" [] c = "V" -> "v" [] c = "W" -> "w" [] c = "X" -> "x"
       [] c = "Y" -> "y" [] c = "Z" -> "z"]

\* strict binding: v is evaluated once and F is applied to its value
Let(v, F(_)) == CHOOSE r \in {F(x) : x \in {v}} : TRUE

LowerChar(c) == IF c \in UpperLetters THEN LowerMap[c] ELSE c

\* str.lower() on a string
Lower(s) ==
  Let(s, LAMBDA str : << >> \o [i \in 1..Len(str) |-> LowerChar(str[i])])

\* the regular-expression classes \w and \s
IsWordChar(c) == c \in LowerLetters \cup UpperLetters \cup Digits \cup {"_"}

IsSpaceChar(c) == c \in {" ", "\n", "\t"}

(***************************************************************************)
(* Sequence helpers                                                        *)
(***************************************************************************)
Take(s, n) ==
  Let(s, LAMBDA str : IF Len(str) <= n THEN str ELSE SubSeq(str, 1, n))

Drop(s, n) ==
  Let(s, LAMBDA str :
    IF Len(str) <= n THEN << >> ELSE SubSeq(str, n + 1, Len(str)))

\* the first position from i on that holds no whitespace (Len(s)+1 if none)
RECURSIVE SkipSpaces(_, _)
SkipSpaces(s, i) ==
  IF i > Len(s) THEN i
  ELSE IF ~IsSpaceChar(s[i]) THEN i
  ELSE SkipSpaces(s, i + 1)

\* the characters of s at the positions in K, in order
AtPositions(s, K) ==
  Let(s, LAMBDA str : Let(K, LAMBDA P :
    << >> \o [n \in 1..Cardinality(P) |->
               str[CHOOSE k \in P : Cardinality({x \in P : x < k}) = n - 1]]))

\* s has the literal lit at position i
HasAt(s, i, lit) ==
  /\ i >= 1
  /\ i + Len(lit) - 1 <= Len(s)
  /\ \A k \in 1..Len(lit) : s[i + k - 1] = lit[k]

\* the Python test  "lit in s"
Contains(s, lit) == \E i \in 1..(Len(s) + 1) : HasAt(s, i, lit)

(***************************************************************************)
(* FUZZY MATCHING: normalize_title, titles_are_similar                     *)
(***************************************************************************)
AIPrefix == <<"[", "A", "I", "]">>

\* re.sub(r'^\[AI\]\s*<red>\s*', '', title)
StripAIPrefix(title) ==
  IF HasAt(title, 1, AIPrefix)
  THEN Let(SkipSpaces(title, Len(AIPrefix) + 1), LAMBDA p :
         IF p <= Len(title) /\ title[p] = RedCircle
         THEN Drop(title, SkipSpaces(title, p + 1) - 1)
         ELSE title)
  ELSE title

\* every whitespace character becomes a blank
Blanked(s) ==
  Let(s, LAMBDA str :
    << >> \o [i \in 1..Len(str) |-> IF IsSpaceChar(str[i]) THEN " " ELSE str[i]])

\* ' '.join(s.split()): runs of whitespace become one blank, ends trimmed
CollapseSpaces(s) ==
  Let(s, LAMBDA str :
    AtPositions(Blanked(str),
                {i \in 1..Len(str) :
                   \/ ~IsSpaceChar(str[i])
                   \/ /\ i > 1 /\ ~IsSpaceChar(str[i - 1])
                      /\ \E j \in (i + 1)..Len(str) : ~IsSpaceChar(str[j])}))

normalize_title(title) ==
  Let(title, LAMBDA t0 :
  Let(StripAIPrefix(t0), LAMBDA t1 :
  Let(Lower(t1), LAMBDA t2 :
  Let(SelectSeq(t2, LAMBDA c : IsWordChar(c) \/ IsSpaceChar(c) \/ c = "-"),
      LAMBDA t3 : CollapseSpaces(t3)))))

\* length of the common run of a from i and b from j, within a[..ahi], b[..bhi]
RECURSIVE CommonRun(_, _, _, _, _, _)
CommonRun(a, b, i, j, ahi, bhi) ==
  IF i > ahi \/ j > bhi THEN 0
  ELSE IF a[i] # b[j] THEN 0
  ELSE 1 + CommonRun(a, b, i + 1, j + 1, ahi, bhi)

\* SequenceMatcher.find_longest_match on a[alo..ahi], b[blo..bhi] (1-based,
\* inclusive): the longest block, the earliest in a, then the earliest in b
FindLongestMatch(a, b, alo, ahi, blo, bhi) ==
  IF alo > ahi \/ blo > bhi THEN <<alo, blo, 0>>
  ELSE
    Let({<<i, j, CommonRun(a, b, i, j, ahi, bhi)>> : i \in alo..ahi, j \in blo..bhi},
        LAMBDA cand :
          CHOOSE p \in cand :
            \A q \in cand :
              \/ p[3] > q[3]
              \/ p[3] = q[3] /\ p[1] < q[1]
              \/ p[3] = q[3] /\ p[1] = q[1] /\ p[2] <= q[2])

\* total size of SequenceMatcher.get_matching_blocks
RECURSIVE MatchingSize(_, _, _, _, _, _)
MatchingSize(a, b, alo, ahi, blo, bhi) ==
  Let(FindLongestMatch(a, b, alo, ahi, blo, bhi), LAMBDA m :
    IF m[3] = 0 THEN 0
    ELSE m[3] + MatchingSize(a, b, alo, m[1] - 1, blo, m[2] - 1)
              + MatchingSize(a, b, m[1] + m[3], ahi, m[2] + m[3], bhi))

\* similarity thresholds in percent
StrictThreshold == 85

LenientThreshold == 75

\* SequenceMatcher(None, a, b).ratio() >= pct/100, i.e. 2*M/T >= pct/100
RatioAtLeast(a, b, pct) ==
  Let(Len(a) + Len(b), LAMBDA T :
  Let(MatchingSize(a, b, 1, Len(a), 1, Len(b)), LAMBDA M :
    IF T = 0 THEN TRUE ELSE 200 * M >= pct * T))

\* a titles_are_similar that compares against the given threshold in both
\* contexts
titles_are_similar_one_threshold(title1, title2, threshold, same_context) ==
  Let(normalize_title(title1), LAMBDA norm1 :
  Let(normalize_title(title2), LAMBDA norm2 :
    IF norm1 = << >> \/ norm2 = << >> THEN FALSE
    ELSE RatioAtLeast(norm1, norm2, threshold)))

titles_are_similar(title1, title2, threshold, same_context) ==
  Let(normalize_title(title1), LAMBDA norm1 :
  Let(normalize_title(title2), LAMBDA norm2 :
  Let(IF same_context THEN LenientThreshold ELSE threshold,
      LAMBDA effective_threshold :
    IF norm1 = << >> \/ norm2 = << >> THEN FALSE
    ELSE RatioAtLeast(norm1, norm2, effective_threshold))))

(***************************************************************************)
(* ISSUE FINGERPRINTING: categorize_issue                                  *)
(***************************************************************************)
\* the keyword table of categorize_issue, in its definition order
CategoryOrder ==
  <<"memory-leak", "type-error", "security", "performance", "race-condition", "infinite-loop", "error-handling", "api-usage">>

CategoryKeywords ==
  [c \in {"memory-leak", "type-error", "security", "performance", "race-condition", "infinite-loop", "error-handling", "api-usage"} |->
     CASE c = "memory-leak" ->
            <<<<"m","e","m","o","r","y"," ","l","e","a","k">>,
              <<"m","i","s","s","i","n","g"," ","c","l","e","a","n","u","p">>,
              <<"c","l","e","a","n","u","p"," ","i","n"," ","u","s","e","e","f","f","e","c","t">>,
              <<"e","f","f","e","c","t"," ","c","l","e","a","n","u","p">>,
              <<"r","e","m","o","v","e"," ","e","v","e","n","t"," ","l","i","s","t","e","n","e","r">>,
              <<"c","l","e","a","r","i","n","t","e","r","v","a","l">>,
              <<"c","l","e","a","r","t","i","m","e","o","u","t">>,
              <<"u","n","s","u","b","s","c","r","i","b","e">>,
              <<"a","b","o","r","t"," ","c","o","n","t","r","o","l","l","e","r">>,
              <<"c","l","e","a","n","u","p"," ","f","u","n","c","t","i","o","n">>,
              <<"l","i","s","t","e","n","e","r"," ","n","o","t"," ","r","e","m","o","v","e","d">>,
              <<"t","i","m","e","r"," ","n","o","t"," ","c","l","e","a","r","e","d">>,
              <<"s","u","b","s","c","r","i","p","t","i","o","n"," ","l","e","a","k">>>>
       [] c = "type-error" ->
            <<<<"t","y","p","e"," ","e","r","r","o","r">>,
              <<"t","y","p","e","s","c","r","i","p","t">>,
              <<"a","n","y"," ","t","y","p","e">>,
              <<"t","y","p","e"," ","s","a","f","e","t","y">>,
              <<"m","i","s","s","i","n","g"," ","t","y","p","e">>,
              <<"i","m","p","l","i","c","i","t"," ","a","n","y">>,
              <<"t","y","p","e"," ","a","n","n","o","t","a","t","i","o","n">>,
              <<"t","y","p","e"," ","d","e","f","i","n","i","t","i","o","n">>,
              <<"i","n","t","e","r","f","a","c","e">>,
              <<"t","y","p","e"," ","a","s","s","e","r","t","i","o","n">>>>
       [] c = "security" ->
            <<<<"x","s","s">>,
              <<"i","n","j","e","c","t","i","o","n">>,
              <<"s","q","l"," ","i","n","j","e","c","t","i","o","n">>,
              <<"s","e","c","u","r","i","t","y"," ","v","u","l","n","e","r","a","b","i","l","i","t","y">>,
              <<"c","s","r","f">>,
              <<"a","u","t","h","e","n","t","i","c","a","t","i","o","n">>,
              <<"a","u","t","h","o","r","i","z","a","t","i","o","n">>,
              <<"s","a","n","i","t","i","z","e">>,
              <<"e","s","c","a","p","e">>,
              <<"v","a","l","i","d","a","t","i","o","n">>,
              <<"u","n","t","r","u","s","t","e","d"," ","i","n","p","u","t">>,
              <<"s","e","c","u","r","i","t","y"," ","r","i","s","k">>>>
       [] c = "performance" ->
            <<<<"p","e","r","f","o","r","m","a","n","c","e">>,
              <<"u","n","n","e","c","e","s","s","a","r","y"," ","r","e","-","r","e","n","d","e","r">>,
              <<"u","s","e","m","e","m","o">>,
              <<"u","s","e","c","a","l","l","b","a","c","k">>,
              <<"r","e","a","c","t",".","m","e","m","o">>,
              <<"o","p","t","i","m","i","z","a","t","i","o","n">>,
              <<"b","u","n","d","l","e"," ","s","i","z","e">>,
              <<"s","l","o","w">>,
              <<"i","n","e","f","f","i","c","i","e","n","t">>,
              <<"e","x","p","e","n","s","i","v","e"," ","o","p","e","r","a","t","i","o","n">>,
              <<"r","e","n","d","e","r"," ","o","p","t","i","m","i","z","a","t","i","o","n">>>>
       [] c = "race-condition" ->
            <<<<"r","a","c","e"," ","c","o","n","d","i","t","i","o","n">>,
              <<"a","s","y","n","c">>,
              <<"p","r","o","m","i","s","e">>,
              <<"c","o","n","c","u","r","r","e","n","t">>,
              <<"t","i","m","i","n","g"," ","i","s","s","u","e">>,
              <<"s","y","n","c","h","r","o","n","i","z","a","t","i","o","n">>,
              <<"a","s","y","n","c"," ","t","i","m","i","n","g">>,
              <<"p","a","r","a","l","l","e","l"," ","e","x","e","c","u","t","i","o","n">>,
              <<"c","o","n","c","u","r","r","e","n","c","y">>,
              <<"r","a","c","e">>>>
       [] c = "infinite-loop" ->
            <<<<"i","n","f","i","n","i","t","e"," ","l","o","o","p">>,
              <<"i","n","f","i","n","i","t","e"," ","r","e","d","i","r","e","c","t">>,
              <<"r","e","c","u","r","s","i","o","n">>,
              <<"d","e","p","e","n","d","e","n","c","y"," ","a","r","r","a","y">>,
              <<"u","s","e","e","f","f","e","c","t"," ","l","o","o","p">>,
              <<"e","n","d","l","e","s","s"," ","l","o","o","p">>,
              <<"c","i","r","c","u","l","a","r"," ","d","e","p","e","n","d","e","n","c","y">>,
              <<"i","n","f","i","n","i","t","e"," ","r","e","c","u","r","s","i","o","n">>>>
       [] c = "error-handling" ->
            <<<<"e","r","r","o","r"," ","h","a","n","d","l","i","n","g">>,
              <<"t","r","y"," ","c","a","t","c","h">>,
              <<"e","r","r","o","r"," ","b","o","u","n","d","a","r","y">>,
              <<"e","x","c","e","p","t","i","o","n">>,
              <<"v","a","l","i","d","a","t","i","o","n">>,
              <<"e","r","r","o","r"," ","c","h","e","c","k">>,
              <<"m","i","s","s","i","n","g"," ","e","r","r","o","r">>,
              <<"u","n","h","a","n","d","l","e","d"," ","e","r","r","o","r">>,
              <<"c","a","t","c","h"," ","b","l","o","c","k">>>>
       [] c = "api-usage" ->
            <<<<"a","p","i">>,
              <<"f","e","t","c","h">>,
              <<"a","x","i","o","s">>,
              <<"h","t","t","p">>,
              <<"r","e","q","u","e","s","t">>,
              <<"e","n","d","p","o","i","n","t">>,
              <<"r","e","s","t">>,
              <<"g","r","a","p","h","q","l">>,
              <<"a","p","i"," ","c","a","l","l">>,
              <<"n","e","t","w","o","r","k"," ","r","e","q","u","e","s","t">>,
              <<"h","t","t","p"," ","c","l","i","e","n","t">>>>]

\* sum(1 for keyword in keywords if keyword in combined_text)
KeywordScore(keywords, text) ==
  Let(keywords, LAMBDA kws :
    Cardinality({k \in 1..Len(kws) : Contains(text, kws[k])}))

\* a maximum that takes the last of the categories with the greatest score
FirstMaxCategory_last(text) ==
  Let(<< >> \o [i \in 1..Len(CategoryOrder) |->
                  KeywordScore(CategoryKeywords[CategoryOrder[i]], text)],
      LAMBDA score :
  Let({i \in 1..Len(CategoryOrder) : score[i] > 0}, LAMBDA scored :
    IF scored = {} THEN "general"
    ELSE CategoryOrder[CHOOSE i \in scored :
                         \A j \in scored :
                           score[i] > score[j] \/ (score[i] = score[j] /\ i >= j)]))

\* max(category_scores, key=category_scores.get): the first category, in
\* insertion order, that has the greatest score
FirstMaxCategory(text) ==
  Let(<< >> \o [i \in 1..Len(CategoryOrder) |->
                  KeywordScore(CategoryKeywords[CategoryOrder[i]], text)],
      LAMBDA score :
  Let({i \in 1..Len(CategoryOrder) : score[i] > 0}, LAMBDA scored :
    IF scored = {} THEN "general"
    ELSE CategoryOrder[CHOOSE i \in scored :
                         \A j \in scored :
                           score[i] > score[j] \/ (score[i] = score[j] /\ i <= j)]))

categorize_issue(issue_title, problem_description, code) ==
  Let(Lower(issue_title \o <<" ">> \o problem_description \o <<" ">> \o code),
      LAMBDA combined_text : FirstMaxCategory(combined_text))

(***************************************************************************)
(* ISSUE FINGERPRINTING: extract_problem_pattern                           *)
(***************************************************************************)
\* code points, as far as sorted() needs them to order extracted tokens
CodeOrder ==
  <<" ", "(", ".", "0","1","2","3","4","5","6","7","8","9", "_",
    "a","b","c","d","e","f","g","h","i","j","k","l","m",
    "n","o","p","q","r","s","t","u","v","w","x","y","z">>

Ord(c) == CHOOSE i \in 1..Len(CodeOrder) : CodeOrder[i] = c

\* Python's str "<" (lexicographic by code point)
StrLess(s, t) ==
  \/ Len(s) < Len(t) /\ \A k \in 1..Len(s) : s[k] = t[k]
  \/ \E i \in 1..Len(s) :
        /\ i <= Len(t)
        /\ \A k \in 1..(i - 1) : s[k] = t[k]
        /\ s[i] # t[i]
        /\ Ord(s[i]) < Ord(t[i])

\* sorted(set(xs)) for a set of strings
RECURSIVE SortedStrings(_)
SortedStrings(S) ==
  IF S = {} THEN << >>
  ELSE Let(CHOOSE x \in S : \A y \in S : x = y \/ StrLess(x, y), LAMBDA m :
         <<m>> \o SortedStrings(S \ {m}))

Range(s) == {s[i] : i \in 1..Len(s)}

\* end (exclusive) of the maximal run of \w characters starting at i
RECURSIVE SkipWord(_, _)
SkipWord(s, i) ==
  IF i > Len(s) THEN i
  ELSE IF ~IsWordChar(s[i]) THEN i
  ELSE SkipWord(s, i + 1)

\* re.sub(r'//.*?\n', '', s): a // comment is removed with its newline, and
\* only if some newline follows it.  Positions kept, scanning from i.
FindNewline(s, i) ==
  Let({j \in i..Len(s) : s[j] = "\n"}, LAMBDA nl :
    IF nl = {} THEN 0 ELSE CHOOSE j \in nl : \A k \in nl : j <= k)

\* the first position from i on where a removable // comment starts, or 0
LineCommentStart(s, i) ==
  Let({j \in i..Len(s) :
         HasAt(s, j, <<"/", "/">>) /\ FindNewline(s, j + 2) # 0}, LAMBDA st :
    IF st = {} THEN 0 ELSE CHOOSE j \in st : \A k \in st : j <= k)

RECURSIVE LineCommentKeep(_, _)
LineCommentKeep(s, i) ==
  Let(LineCommentStart(s, i), LAMBDA c :
    IF c = 0 THEN i..Len(s)
    ELSE Let(FindNewline(s, c + 2) + 1, LAMBDA next :
           (i..(c - 1)) \cup LineCommentKeep(s, next)))

StripLineComments(s) ==
  Let(s, LAMBDA str : AtPositions(str, LineCommentKeep(str, 1)))

\* re.sub(r'/\*.*?\*/', '', s, flags=re.DOTALL)
FindBlockEnd(s, i) ==
  Let({j \in i..(Len(s) - 1) : s[j] = "*" /\ s[j + 1] = "/"}, LAMBDA e :
    IF e = {} THEN 0 ELSE (CHOOSE j \in e : \A k \in e : j <= k) + 1)

BlockCommentStart(s, i) ==
  Let({j \in i..Len(s) :
         HasAt(s, j, <<"/", "*">>) /\ FindBlockEnd(s, j + 2) # 0}, LAMBDA st :
    IF st = {} THEN 0 ELSE CHOOSE j \in st : \A k \in st : j <= k)

RECURSIVE BlockCommentKeep(_, _)
BlockCommentKeep(s, i) ==
  Let(BlockCommentStart(s, i), LAMBDA c :
    IF c = 0 THEN i..Len(s)
    ELSE Let(FindBlockEnd(s, c + 2) + 1, LAMBDA next :
           (i..(c - 1)) \cup BlockCommentKeep(s, next)))

StripBlockComments(s) ==
  Let(s, LAMBDA str : AtPositions(str, BlockCommentKeep(str, 1)))

\* re.sub(r'\s+', ' ', s)
SquashSpaces(s) ==
  Let(s, LAMBDA str :
    AtPositions(Blanked(str),
                {i \in 1..Len(str) :
                   ~IsSpaceChar(str[i]) \/ i = 1 \/ ~IsSpaceChar(str[i - 1])}))

\* str.strip()
Strip(s) ==
  Let(s, LAMBDA str :
  Let({i \in 1..Len(str) : ~IsSpaceChar(str[i])}, LAMBDA ink :
    AtPositions(str, {i \in 1..Len(str) :
                        (\E j \in ink : j <= i) /\ (\E j \in ink : j >= i)})))

NormalizeCode(current_code) ==
  Strip(SquashSpaces(StripBlockComments(StripLineComments(Lower(current_code)))))

\* the least element of a nonempty set of positions, 0 for the empty set
MinPos(P) == IF P = {} THEN 0 ELSE CHOOSE j \in P : \A k \in P : j <= k

\* prefix\w+\s*\( matches at position i
CallAt(s, i, prefix) ==
  /\ HasAt(s, i, prefix)
  /\ Let(i + Len(prefix), LAMBDA w :
     Let(SkipWord(s, w), LAMBDA e :
     Let(SkipSpaces(s, e), LAMBDA p :
       e > w /\ p <= Len(s) /\ s[p] = "(")))

CallEnd(s, i, prefix) == SkipSpaces(s, SkipWord(s, i + Len(prefix)))

\* re.findall(prefix\w+\s*\(), s): the matched texts, scanning left to right
\* without overlap; prefix = << >> gives \w+\s*\(
RECURSIVE FindCalls(_, _, _)
FindCalls(s, i, prefix) ==
  Let(MinPos({k \in i..Len(s) : CallAt(s, k, prefix)}), LAMBDA j :
    IF j = 0 THEN << >>
    ELSE Let(CallEnd(s, j, prefix), LAMBDA e :
           <<SubSeq(s, j, e)>> \o FindCalls(s, e + 1, prefix)))

\* re.findall('(alt1|alt2|...)\s*[\(\.]', s): the first alternative, in the
\* order written, that is followed by blanks and then "(" or "."
AltAt(s, i, alts) ==
  LET ok(k) == /\ HasAt(s, i, alts[k])
               /\ Let(SkipSpaces(s, i + Len(alts[k])), LAMBDA p :
                    p <= Len(s) /\ s[p] \in {"(", "."})
  IN  MinPos({k \in 1..Len(alts) : ok(k)})

RECURSIVE FindAlts(_, _, _)
FindAlts(s, i, alts) ==
  Let(MinPos({k \in i..Len(s) : AltAt(s, k, alts) # 0}), LAMBDA j :
    IF j = 0 THEN << >>
    ELSE Let(alts[AltAt(s, j, alts)], LAMBDA a :
         Let(SkipSpaces(s, j + Len(a)) + 1, LAMBDA next :
           <<a>> \o FindAlts(s, next, alts))))

\* re.findall(r'(const|let|var)\s+\w+\s*=', s)
DeclAt(s, i, kws) ==
  LET ok(k) == /\ HasAt(s, i, kws[k])
               /\ Let(i + Len(kws[k]), LAMBDA a :
                  Let(SkipSpaces(s, a), LAMBDA b :
                  Let(SkipWord(s, b), LAMBDA c :
                  Let(SkipSpaces(s, c), LAMBDA d :
                    b > a /\ c > b /\ d <= Len(s) /\ s[d] = "="))))
  IN  MinPos({k \in 1..Len(kws) : ok(k)})

DeclEnd(s, i, kw) ==
  SkipSpaces(s, SkipWord(s, SkipSpaces(s, i + Len(kw)))) + 1

RECURSIVE FindDecls(_, _, _)
FindDecls(s, i, kws) ==
  Let(MinPos({k \in i..Len(s) : DeclAt(s, k, kws) # 0}), LAMBDA j :
    IF j = 0 THEN << >>
    ELSE Let(kws[DeclAt(s, j, kws)], LAMBDA kw :
         Let(DeclEnd(s, j, kw), LAMBDA next :
           <<kw>> \o FindDecls(s, next, kws))))

CriticalApis ==
  <<<<"w","i","n","d","o","w",".">>,
    <<"d","o","c","u","m","e","n","t",".">>,
    <<"a","d","d","e","v","e","n","t","l","i","s","t","e","n","e","r">>,
    <<"r","e","m","o","v","e","e","v","e","n","t","l","i","s","t","e","n","e","r">>,
    <<"s","e","t","i","n","t","e","r","v","a","l">>,
    <<"c","l","e","a","r","i","n","t","e","r","v","a","l">>,
    <<"s","e","t","t","i","m","e","o","u","t">>,
    <<"c","l","e","a","r","t","i","m","e","o","u","t">>,
    <<"a","b","o","r","t","c","o","n","t","r","o","l","l","e","r">>>>

AsyncPatterns ==
  <<<<"a","s","y","n","c">>,
    <<"a","w","a","i","t">>,
    <<"f","e","t","c","h">>,
    <<"a","x","i","o","s">>,
    <<"p","r","o","m","i","s","e">>,
    <<".","t","h","e","n">>,
    <<".","c","a","t","c","h">>>>

StatePatterns ==
  <<<<"u","s","e","s","t","a","t","e">>,
    <<"u","s","e","r","e","d","u","c","e","r">>,
    <<"u","s","e","c","o","n","t","e","x","t">>,
    <<"s","t","a","t","e",".">>,
    <<"s","e","t","s","t","a","t","e">>>>

DeclKeywords ==
  <<<<"c","o","n","s","t">>,
    <<"l","e","t">>,
    <<"v","a","r">>>>

UsePrefix == <<"u","s","e">>

\* caps of the tiers and of the whole signature
MaxApiTokens == 5

MaxAsyncTokens == 3

MaxStateTokens == 3

MaxFnTokens == 3

MaxVarTokens == 2

MaxPatternTokens == 10

FnTierBelow == 3

VarTierBelow == 5

\* [f"TAG:{x}" for x in xs]
Tagged(tag, xs) ==
  Let(xs, LAMBDA ys : << >> \o [i \in 1..Len(ys) |-> tag \o ys[i]])

\* '|'.join(tokens)
RECURSIVE JoinBar(_)
JoinBar(tokens) ==
  Let(tokens, LAMBDA ts :
    IF ts = << >> THEN << >>
    ELSE IF Len(ts) = 1 THEN ts[1]
    ELSE ts[1] \o <<"|">> \o JoinBar(Tail(ts)))

\* a key_patterns whose FN tier is consulted whatever was collected before
key_patterns_fn_always(current_code) ==
  Let(NormalizeCode(current_code), LAMBDA pattern :
  Let(SortedStrings(Range(FindCalls(pattern, 1, UsePrefix))), LAMBDA hooks :
  Let(Take(SortedStrings(Range(FindAlts(pattern, 1, CriticalApis))),
           MaxApiTokens), LAMBDA apis :
  Let(Take(SortedStrings(Range(FindAlts(pattern, 1, AsyncPatterns))),
           MaxAsyncTokens), LAMBDA asyncs :
  Let(Take(SortedStrings(Range(FindAlts(pattern, 1, StatePatterns))),
           MaxStateTokens), LAMBDA states :
  Let(Tagged(<<"H","O","O","K",":">>, hooks)
      \o Tagged(<<"A","P","I",":">>, apis)
      \o Tagged(<<"A","S","Y","N","C",":">>, asyncs)
      \o Tagged(<<"S","T","A","T","E",":">>, states), LAMBDA k4 :
  Let(Take(SortedStrings(Range(FindCalls(pattern, 1, << >>))), MaxFnTokens),
      LAMBDA fns :
  Let(k4 \o Tagged(<<"F","N",":">>, fns), LAMBDA k5 :
  Let(IF Len(k5) < VarTierBelow
      THEN Take(SortedStrings(Range(FindDecls(pattern, 1, DeclKeywords))),
                MaxVarTokens)
      ELSE << >>, LAMBDA vars_ :
    k5 \o Tagged(<<"V","A","R",":">>, vars_))))))))))

\* the list key_patterns before it is cut and joined
key_patterns(current_code) ==
  Let(NormalizeCode(current_code), LAMBDA pattern :
  Let(SortedStrings(Range(FindCalls(pattern, 1, UsePrefix))), LAMBDA hooks :
  Let(Take(SortedStrings(Range(FindAlts(pattern, 1, CriticalApis))),
           MaxApiTokens), LAMBDA apis :
  Let(Take(SortedStrings(Range(FindAlts(pattern, 1, AsyncPatterns))),
           MaxAsyncTokens), LAMBDA asyncs :
  Let(Take(SortedStrings(Range(FindAlts(pattern, 1, StatePatterns))),
           MaxStateTokens), LAMBDA states :
  Let(Tagged(<<"H","O","O","K",":">>, hooks)
      \o Tagged(<<"A","P","I",":">>, apis)
      \o Tagged(<<"A","S","Y","N","C",":">>, asyncs)
      \o Tagged(<<"S","T","A","T","E",":">>, states), LAMBDA k4 :
  Let(IF Len(k4) < FnTierBelow
      THEN Take(SortedStrings(Range(FindCalls(pattern, 1, << >>))), MaxFnTokens)
      ELSE << >>, LAMBDA fns :
  Let(k4 \o Tagged(<<"F","N",":">>, fns), LAMBDA k5 :
  Let(IF Len(k5) < VarTierBelow
      THEN Take(SortedStrings(Range(FindDecls(pattern, 1, DeclKeywords))),
                MaxVarTokens)
      ELSE << >>, LAMBDA vars_ :
    k5 \o Tagged(<<"V","A","R",":">>, vars_))))))))))

extract_problem_pattern(current_code, suggested_fix) ==
  IF current_code = << >> THEN << >>
  ELSE JoinBar(Take(key_patterns(current_code), MaxPatternTokens))


(***************************************************************************)
(* ISSUE FINGERPRINTING: generate_issue_fingerprint                        *)
(***************************************************************************)
\* re.sub(r':\d+', '', file_path): every colon that is followed by a digit
\* goes, together with the digits after it
NormalizeFile(file_path) ==
  Let(file_path, LAMBDA s :
    LET colon(j) == s[j] = ":" /\ j < Len(s) /\ s[j + 1] \in Digits
        gone(i) == \/ colon(i)
                   \/ /\ s[i] \in Digits
                      /\ \E j \in 1..(i - 1) :
                           colon(j) /\ \A k \in (j + 1)..i : s[k] \in Digits
    IN  AtPositions(s, {i \in 1..Len(s) : ~gone(i)}))

PatternCut == 100

TitleCut == 50

\* hashlib.sha256(...).hexdigest()[:12] and hashlib.md5(...).hexdigest()[:8]:
\* the digest stands for the text it was computed from
Sha256(text) == <<"sha256", text>>

Md5(text) == <<"md5", text>>

\* Python's None (and every other falsy id)
None == << >>

generate_issue_fingerprint(file_path, issue_title, problem, current_code, suggested_fix) ==
  Let(NormalizeFile(file_path), LAMBDA normalized_file :
  Let(extract_problem_pattern(current_code, suggested_fix), LAMBDA problem_pattern :
  Let(categorize_issue(issue_title, problem, current_code), LAMBDA category :
  Let(normalize_title(issue_title), LAMBDA normalized_title :
  \* '|'.join(components); the category name stands for its characters
  Let(normalized_file \o <<"|", category, "|">>
      \o Take(problem_pattern, PatternCut) \o <<"|">>
      \o Take(normalized_title, TitleCut), LAMBDA fingerprint_str :
    [fingerprint |-> Sha256(fingerprint_str),
     simple_id   |-> Md5(file_path \o <<":">> \o issue_title),
     category    |-> category,
     pattern     |-> problem_pattern,
     file        |-> normalized_file])))))

\* ai_verify_fixes.generate_issue_id: the title loses its "[AI] <red>" prefix
generate_issue_id(file_path, issue_title) ==
  Md5(file_path \o <<":">> \o StripAIPrefix(issue_title))

(***************************************************************************)
(* Issue bodies.  A body is the sequence of the lexemes that the metadata  *)
(* regular expressions can tell apart: literal markup, whitespace, and     *)
(* the values written into the template.                                   *)
(***************************************************************************)
Lit(x) == [k |-> "lit", v |-> x]

Ws == [k |-> "ws", v |-> " "]

\* the backtick that quotes a value
Backtick == [k |-> "lit", v |-> "<bt>"]

Val(kind, x) == [k |-> kind, v |-> x]

IsLit(e, x) == e.k = "lit" /\ e.v = x

\* the lexeme classes a regular expression class can start to match
IsWordLexeme(e) == e.k \in {"hex", "num", "cat"}

\* first lexeme after position i that is no whitespace (\s*)
RECURSIVE SkipWs(_, _)
SkipWs(body, i) ==
  IF i > Len(body) THEN Len(body) + 1
  ELSE IF body[i].k # "ws" THEN i
  ELSE SkipWs(body, i + 1)

\* re.search(marker + r'\s*(\w+)', body): position of the captured value of
\* the first occurrence that matches, 0 if none does
SearchWordAfter(body, marker) ==
  LET hit(i) == /\ IsLit(body[i], marker)
                /\ Let(SkipWs(body, i + 1), LAMBDA p :
                     p <= Len(body) /\ IsWordLexeme(body[p]))
  IN  MinPos({i \in 1..Len(body) : hit(i)})

WordAfter(body, marker) ==
  Let(SearchWordAfter(body, marker), LAMBDA i :
    IF i = 0 THEN None ELSE body[SkipWs(body, i + 1)].v)

\* re.search(r'\*\*File:\*\*\s*<bt>([^<bt>]+)<bt>', body), <bt> the backtick
ExtractFile(body) ==
  LET hit(i) == /\ i + 2 <= Len(body)
                /\ IsLit(body[i], "**") /\ IsLit(body[i + 1], "File:")
                /\ IsLit(body[i + 2], "**")
                /\ Let(SkipWs(body, i + 3), LAMBDA p :
                     /\ p + 2 <= Len(body)
                     /\ IsLit(body[p], "<bt>")
                     /\ body[p + 1].k = "path" /\ body[p + 1].v # << >>
                     /\ IsLit(body[p + 2], "<bt>"))
  IN  Let(MinPos({i \in 1..Len(body) : hit(i)}), LAMBDA i0 :
        IF i0 = 0 THEN << >> ELSE body[SkipWs(body, i0 + 3) + 1].v)

extract_issue_metadata(issue) ==
  Let(issue.body, LAMBDA body :
  Let(SearchWordAfter(body, "CATEGORY:"), LAMBDA cpos :
    [number      |-> issue.number,
     title       |-> issue.title,
     state       |-> issue.state,
     simple_id   |-> WordAfter(body, "AI-ID:"),
     fingerprint |-> WordAfter(body, "FINGERPRINT:"),
     file_path   |-> ExtractFile(body),
     category    |-> IF cpos = 0 THEN "general"
                     ELSE body[SkipWs(body, cpos + 1)].v,
     created_at  |-> issue.created_at]))

\* re.search(r'Reopened:\s*(\d+)\s*times', issue_body)
get_reopen_history(issue_body) ==
  Let(issue_body, LAMBDA body :
    LET hit(i) == /\ IsLit(body[i], "Reopened:")
                  /\ Let(SkipWs(body, i + 1), LAMBDA p :
                       /\ p <= Len(body) /\ body[p].k = "num"
                       /\ Let(SkipWs(body, p + 1), LAMBDA q :
                            q <= Len(body) /\ IsLit(body[q], "times")))
    IN  Let(MinPos({i \in 1..Len(body) : hit(i)}), LAMBDA i0 :
          IF i0 = 0 THEN 0 ELSE body[SkipWs(body, i0 + 1)].v))

\* the body template of create_new_issue, metadata lines only
NewIssueBody(issue_data) ==
  Let(issue_data.fingerprint_data, LAMBDA fp :
      << Lit("**"), Lit("File:"), Lit("**"), Ws,
         Backtick, Val("path", issue_data.file_path), Backtick, Ws,
         Lit("**"), Lit("Category:"), Lit("**"), Ws, Backtick,
         Val("cat", fp.category), Backtick, Ws,
         Lit("**"), Lit("AI-ID:"), Lit("**"), Ws,
         Backtick, Val("hex", fp.simple_id), Backtick, Ws,
         Lit("**"), Lit("FINGERPRINT:"), Lit("**"), Ws,
         Backtick, Val("hex", fp.fingerprint), Backtick, Ws,
         Lit("**"), Lit("CATEGORY:"), Lit("**"), Ws,
         Backtick, Val("cat", fp.category), Backtick, Ws,
         Lit("**"), Lit("Reopened:"), Lit("**"), Ws,
         Val("num", 0), Ws, Lit("times") >>)

\* the body template of the first-generation converter (create_github_issue)
LegacyIssueBody(file_path, issue_id) ==
  << Lit("**"), Lit("File:"), Lit("**"), Ws,
     Backtick, Val("path", file_path), Backtick, Ws,
     Lit("AI-ID:"), Ws, Val("hex", issue_id) >>

(***************************************************************************)
(* ISSUE SEARCHING: find_matching_issue                                    *)
(***************************************************************************)
\* one pass of the loop "for issue in all_issues", from position i on, with
\* the accumulators exact_match, simple_match, fuzzy_matches
RECURSIVE MatchLoop(_, _, _, _, _)
MatchLoop(all_issues, new_issue_data, i, simple_match, fuzzy_matches) ==
  IF i > Len(all_issues)
  THEN [exact |-> None, simple |-> simple_match, fuzzy |-> fuzzy_matches]
  ELSE Let(new_issue_data.fingerprint_data, LAMBDA new_fp :
       Let(extract_issue_metadata(all_issues[i]), LAMBDA metadata :
       Let(/\ metadata.file_path = new_fp.file
           /\ metadata.category = new_fp.category, LAMBDA same_context :
         IF metadata.fingerprint # None
            /\ metadata.fingerprint = new_fp.fingerprint
         THEN [exact |-> <<metadata>>, simple |-> simple_match,
               fuzzy |-> fuzzy_matches]
         ELSE Let(IF metadata.simple_id # None
                     /\ metadata.simple_id = new_fp.simple_id
                  THEN <<metadata>> ELSE simple_match, LAMBDA simple_next :
              Let(IF /\ metadata.file_path = new_fp.file
                     /\ metadata.category = new_fp.category
                     /\ titles_are_similar(metadata.title, new_issue_data.title,
                                           StrictThreshold, same_context)
                  THEN Append(fuzzy_matches, metadata) ELSE fuzzy_matches,
                  LAMBDA fuzzy_next :
                MatchLoop(all_issues, new_issue_data, i + 1,
                          simple_next, fuzzy_next))))))

\* list.sort(key=created_at, reverse=True)[0]: the greatest creation time;
\* the stable sort keeps the earlier list element among equal times
NewestFirst(ms) ==
  Let(ms, LAMBDA xs :
    xs[CHOOSE i \in 1..Len(xs) :
         \A j \in 1..Len(xs) :
           \/ xs[i].created_at > xs[j].created_at
           \/ xs[i].created_at = xs[j].created_at /\ i <= j])

NoMatch == [kind |-> "none", number |-> 0, state |-> "none"]

\* a matcher that prefers the legacy id to the fingerprint
find_matching_issue_id_first(all_issues, new_issue_data) ==
  LET found(m, kind) == [kind |-> kind, number |-> m.number, state |-> m.state]
  IN  Let(all_issues, LAMBDA xs : Let(new_issue_data, LAMBDA d :
      Let(MatchLoop(xs, d, 1, None, << >>), LAMBDA r :
        IF r.simple # None THEN found(r.simple[1], "simple")
        ELSE IF r.exact # None THEN found(r.exact[1], "exact")
        ELSE IF r.fuzzy # << >> THEN found(NewestFirst(r.fuzzy), "fuzzy")
        ELSE NoMatch)))

find_matching_issue(all_issues, new_issue_data) ==
  LET found(m, kind) == [kind |-> kind, number |-> m.number, state |-> m.state]
  IN  Let(all_issues, LAMBDA xs : Let(new_issue_data, LAMBDA d :
      Let(MatchLoop(xs, d, 1, None, << >>), LAMBDA r :
        IF r.exact # None THEN found(r.exact[1], "exact")
        ELSE IF r.simple # None THEN found(r.simple[1], "simple")
        ELSE IF r.fuzzy # << >> THEN found(NewestFirst(r.fuzzy), "fuzzy")
        ELSE NoMatch)))


(***************************************************************************)
(* Review documents.  A parsed ReviewDocument is the set of files that     *)
(* have a "## File:" section and the critical issue blocks in document     *)
(* order; a block is its file path, title, problem text and current code.  *)
(***************************************************************************)
FileA == <<"a",".","t","s">>

FileB == <<"b",".","t","s">>

\* b.ts quoted with a line number, "b.ts:7"
FileBLine == <<"b",".","t","s",":","7">>

TitleLeak == <<"M","e","m","o","r","y"," ","l","e","a","k">>

TitleCleanup == <<"M","i","s","s","i","n","g"," ","c","l","e","a","n","u","p">>

TitleOdd == <<"O","d","d"," ","n","a","m","e">>

ProblemText == <<"x">>

CodeHook == <<"u","s","e","E","f","f","e","c","t","(","f",")">>

CodeEmpty == << >>

Block(file_path, title, code) ==
  [file_path |-> file_path, title |-> title, problem |-> ProblemText,
   current_code |-> code]

\* the issue blocks that reviews are made of
Catalog ==
  << Block(FileA, TitleLeak, CodeHook),
     Block(FileA, TitleCleanup, CodeHook),
     Block(FileB, TitleOdd, CodeEmpty),
     Block(FileBLine, TitleOdd, CodeEmpty) >>

\* bound: critical issue blocks per review
MaxRecs == 2

BlockSeqs == UNION {[1..n -> 1..Len(Catalog)] : n \in 0..MaxRecs}

\* a review names blocks by their catalog index; its files are the files of
\* its blocks and, possibly, further files with no critical issue
Reviews ==
  {[files |-> {Catalog[bs[i]].file_path : i \in 1..Len(bs)} \cup extra,
    recs  |-> bs] :
     bs \in BlockSeqs, extra \in {{}, {FileA}, {FileB}, {FileA, FileB}}}

\* "[AI] <red> " + issue_title
AITitle(issue_title) == AIPrefix \o <<" ", RedCircle, " ">> \o issue_title

\* the fingerprint data of every catalog block (generate_issue_fingerprint is
\* evaluated once per block)
CatalogFp ==
  << >> \o
  [i \in 1..Len(Catalog) |->
     generate_issue_fingerprint(Catalog[i].file_path, Catalog[i].title,
                                Catalog[i].problem, Catalog[i].current_code,
                                << >>)]

(***************************************************************************)
(* Labels.  A label is <<name, n>>: n = 0 for a plain label, and           *)
(* <<"ai-not-seen", n>> is the confirmation counter label ai-not-seen-{n}x *)
(***************************************************************************)
PlainLabel(name) == <<name, 0>>

NotSeenLabel(count) == <<"ai-not-seen", count>>

\* the path-derived labels of parse_ai_review
PathLabels(file_path) ==
  Let(Lower(file_path), LAMBDA lc :
    LET has(s, w) == Contains(s, w)
    IN  (IF \/ has(file_path, <<"f","r","o","n","t","e","n","d">>)
            \/ has(file_path, <<".","t","s","x">>)
            \/ has(file_path, <<".","j","s","x">>)
            \/ has(file_path, <<".","t","s">>)
            \/ has(file_path, <<".","j","s">>)
         THEN {PlainLabel("frontend")} ELSE {})
        \cup (IF has(lc, <<"c","o","m","p","o","n","e","n","t">>)
              THEN {PlainLabel("component")} ELSE {})
        \cup (IF has(lc, <<"a","p","i">>) \/ has(lc, <<"s","e","r","v","i","c","e">>)
              THEN {PlainLabel("api")} ELSE {})
        \cup (IF has(lc, <<"h","o","o","k">>) THEN {PlainLabel("hooks")} ELSE {}))

BaseLabels == {PlainLabel("ai-review"), PlainLabel("critical"), PlainLabel("bug")}

\* parse_ai_review: the issue record built from catalog block i
IssueData(i) ==
  Let(Catalog[i], LAMBDA b : Let(CatalogFp[i], LAMBDA fp :
    [title            |-> AITitle(b.title),
     file_path        |-> b.file_path,
     labels           |-> BaseLabels \cup {PlainLabel(fp.category)}
                          \cup PathLabels(b.file_path),
     fingerprint_data |-> fp,
     block            |-> i]))

(***************************************************************************)
(* The issue store and the two pipeline stages                             *)
(***************************************************************************)
VARIABLES
  issues,     \* the store: issues[n] is issue number n
  updated,    \* issue numbers, the most recently updated first
  pc,         \* "idle", "convert" (converter loop), "verify" (verifier loop)
  review,     \* the ReviewDocument of the current run
  corpus,     \* converter: all_existing_issues as fetched, <<number, state>>
  worklist,   \* verifier: open_issues as fetched, <<number, labels>>
  idx,        \* position of the current run in its loop
  faults,     \* number of store calls that have failed so far
  calls,      \* mutating store calls issued by the last step, <<number, call>>
  last,       \* what the last converter step decided
  reopenLog,  \* per issue, the reopen counts logged by reopen_issue
  vtrace,     \* per issue, the outcomes of the verifier runs that reviewed it
  args,       \* inputs of the function under test (function specifications)
  ret         \* its result

vars == <<issues, updated, pc, review, corpus, worklist, idx, faults, calls,
          last, reopenLog, vtrace, args, ret>>

\* bounds of the store and of the failure injection
MaxIssues == 2

MaxFaults == 1

\* bound: verifier runs recorded per issue
MaxTrace == 6

\* bound: reopens performed in one behaviour
MaxReopens == 2

\* the store has room for the tracked issues and one meta-issue
StoreCap == MaxIssues + 1

IssueNumbers == 1..Len(issues)

\* an issue as the first-generation converter created it from catalog block i
LegacyIssue(n, i) ==
  [number     |-> n,
   title      |-> AITitle(Catalog[i].title),
   body       |-> LegacyIssueBody(Catalog[i].file_path,
                                  Md5(Catalog[i].file_path \o <<":">>
                                      \o Catalog[i].title)),
   state      |-> "open",
   labels     |-> BaseLabels \cup PathLabels(Catalog[i].file_path),
   created_at |-> n,
   block      |-> i,
   meta_of    |-> 0]

NoLast ==
  [op |-> "none", block |-> 0, kind |-> "none", number |-> 0, count |-> 0,
   failed |-> {}]

NoReview == [files |-> {}, recs |-> << >>]

\* moves issue n to the front of the updated-first order
Touch(order, n) == <<n>> \o SelectSeq(order, LAMBDA m : m # n)

\* the subsets of the issued calls that may fail within the failure budget
FaultSets(issued) ==
  {F \in SUBSET issued : Cardinality(F) <= MaxFaults - faults}

\* a store whose state PATCH rewrites the body as well
Stored_with_body(st, labels, state) ==
  [st EXCEPT !.labels = labels, !.state = state,
             !.body = IF state = st.state THEN @
                      ELSE @ \o <<Ws, Lit("Reopened:"), Ws, Val("num", 1), Ws,
                                  Lit("times")>>]

\* the issue st in the store after the label calls and the state PATCH of one
\* operation: the PATCH payloads are {"state": "open"}, {"state": "closed"}
\* and {"state": "closed", "state_reason": "completed"}, the label calls name
\* one label each
Stored(st, labels, state) == [st EXCEPT !.labels = labels, !.state = state]

\* a batch loop that stops at the first record with a failed store call
NextRecord_abort_on_failure(position, length, loop, failed) ==
  IF failed THEN "aborted"
  ELSE IF position = length THEN "done" ELSE loop

\* the control of the batch loops ("for issue_data in new_issues", "for issue
\* in open_issues", "for dup in group[1:]") after the record at position: every
\* store call catches its exceptions, so the loop does not see whether a call
\* of the record has failed
NextRecord(position, length, loop, failed) ==
  IF position = length THEN "done" ELSE loop

(***************************************************************************)
(* Verifier (ai_verify_fixes.py)                                           *)
(***************************************************************************)
HasLabels(issue, names) == \A nm \in names : PlainLabel(nm) \in issue.labels

\* a fetch without "state": "open"
OpenAIIssueNumbers_any_state ==
  {n \in IssueNumbers :
     /\ HasLabels(issues[n], {"ai-review", "critical"})
     /\ SearchWordAfter(issues[n].body, "AI-ID:") # 0}

\* get_open_ai_issues: the open issues labelled ai-review and critical whose
\* body has an extractable AI-ID, in the store's default order (newest first)
OpenAIIssueNumbers ==
  {n \in IssueNumbers :
     /\ issues[n].state = "open"
     /\ HasLabels(issues[n], {"ai-review", "critical"})
     /\ SearchWordAfter(issues[n].body, "AI-ID:") # 0}

RECURSIVE Descending(_)
Descending(S) ==
  IF S = {} THEN << >>
  ELSE Let(CHOOSE x \in S : \A y \in S : x >= y, LAMBDA m :
         <<m>> \o Descending(S \ {m}))

get_open_ai_issues ==
  Let(Descending(OpenAIIssueNumbers), LAMBDA ns :
    << >> \o
    [k \in 1..Len(ns) |->
       Let(issues[ns[k]], LAMBDA st :
         [number    |-> st.number,
          title     |-> st.title,
          ai_id     |-> WordAfter(st.body, "AI-ID:"),
          file_path |-> ExtractFile(st.body),
          labels    |-> st.labels])])

parse_current_review_issues(rv) ==
  {generate_issue_id(Catalog[rv.recs[k]].file_path, Catalog[rv.recs[k]].title) :
     k \in 1..Len(rv.recs)}

extract_files_reviewed(rv) == rv.files

\* a check that takes every file as reviewed
should_verify_issue_any_file(issue, reviewed_files) == TRUE

should_verify_issue(issue, reviewed_files) ==
  IF issue.file_path = << >> THEN FALSE
  ELSE IF issue.file_path \notin reviewed_files THEN FALSE
  ELSE TRUE

\* get_not_seen_count returns the count of the first ai-not-seen label of the
\* list; the order of the list is the store's, so any of them may be first
NotSeenCounts(labels) == {l[2] : l \in {x \in labels : x[1] = "ai-not-seen"}}

get_not_seen_count(labels) ==
  IF NotSeenCounts(labels) = {} THEN {0} ELSE NotSeenCounts(labels)

remove_label(labels, label, ok) == IF ok THEN labels \ {label} ELSE labels

add_label(labels, label, ok) == IF ok THEN labels \cup {label} ELSE labels

update_not_seen_label(labels, new_count, old_count, F) ==
  Let(IF old_count > 0
      THEN remove_label(labels, NotSeenLabel(old_count), "remove_label" \notin F)
      ELSE labels, LAMBDA l1 :
    add_label(l1, NotSeenLabel(new_count), "add_label" \notin F))

\* confirmations needed before an issue is closed
ConfirmationsNeeded == 3

\* a counter that steps by two
NextCount_by_two(old_count) == old_count + 2

\* new_count = old_count + 1
NextCount(old_count) == old_count + 1

\* close_fixed_issue: the comment, then the PATCH that closes
close_fixed_issue(state, F) == IF "patch" \in F THEN state ELSE "closed"

\* verify_with_confirmation on snapshot issue, with st the issue in the store,
\* old_count the count read from the snapshot and F the calls that fail
verify_with_confirmation(st, issue, current_issue_ids, reviewed_files, old_count, F) ==
  IF ~should_verify_issue(issue, reviewed_files)
  THEN [result |-> "skipped", labels |-> st.labels, state |-> st.state,
        issued |-> {}]
  ELSE IF issue.ai_id \in current_issue_ids
  THEN IF old_count > 0
       THEN [result |-> "still_exists",
             labels |-> remove_label(st.labels, NotSeenLabel(old_count),
                                     "remove_label" \notin F),
             state  |-> st.state,
             issued |-> {"remove_label", "comment"}]
       ELSE [result |-> "still_exists", labels |-> st.labels,
             state |-> st.state, issued |-> {}]
  ELSE Let(NextCount(old_count), LAMBDA new_count :
       Let(update_not_seen_label(st.labels, new_count, old_count, F),
           LAMBDA labels1 :
       Let((IF old_count > 0 THEN {"remove_label"} ELSE {}) \cup {"add_label"},
           LAMBDA upd :
         IF new_count >= ConfirmationsNeeded
         THEN [result |-> "closed", labels |-> labels1,
               state  |-> close_fixed_issue(st.state, F),
               issued |-> upd \cup {"comment", "patch"}]
         ELSE [result |-> "tracking", labels |-> labels1,
               state  |-> st.state,
               issued |-> upd \cup {"comment"}])))

\* main, up to the loop: fetch the open issues, read the reviewed files
VerifierStart(reviews, fetch_ok, record) ==
  /\ pc = "idle"
  /\ record => \A n \in IssueNumbers : Len(vtrace[n]) < MaxTrace
  /\ fetch_ok \/ faults < MaxFaults
  /\ faults' = IF fetch_ok THEN faults ELSE faults + 1
  /\ \E open_issues \in {IF fetch_ok THEN get_open_ai_issues ELSE << >>} :
       /\ worklist' = open_issues
       /\ IF open_issues = << >>
          THEN pc' = "idle" /\ review' = NoReview
          ELSE \E rv \in reviews :
                 /\ rv.files # {}
                 /\ pc' = "verify"
                 /\ review' = rv
  /\ idx' = 1
  /\ calls' = {}
  /\ last' = NoLast
  /\ UNCHANGED <<issues, updated, corpus, reopenLog, vtrace, args, ret>>

\* one iteration of "for issue in open_issues"
VerifierStep(record) ==
  /\ pc = "verify"
  /\ \E issue \in {worklist[idx]} :
     \E n \in {issue.number} :
     \E current_issue_ids \in {parse_current_review_issues(review)} :
     \E old_count \in get_not_seen_count(issue.labels) :
     \E F \in FaultSets({"remove_label", "add_label", "comment", "patch"}) :
     \E out \in {verify_with_confirmation(issues[n], issue, current_issue_ids,
                    extract_files_reviewed(review), old_count, F)} :
               /\ F \subseteq out.issued
               /\ faults' = faults + Cardinality(F)
               /\ issues' = [issues EXCEPT ![n] = Stored(@, out.labels, out.state)]
               /\ updated' = IF out.issued \ F = {} THEN updated
                             ELSE Touch(updated, n)
               /\ calls' = {<<n, c>> : c \in out.issued}
               /\ vtrace' = IF record /\ out.result # "skipped"
                            THEN [vtrace EXCEPT ![n] = Append(@,
                                    [detected |-> out.result = "still_exists",
                                     result   |-> out.result,
                                     counts   |-> NotSeenCounts(out.labels),
                                     closed   |-> out.state = "closed"])]
                            ELSE vtrace
  /\ idx' = idx + 1
  /\ pc' = NextRecord(idx, Len(worklist), "verify", faults' > faults)
  /\ last' = NoLast
  /\ UNCHANGED <<review, corpus, worklist, reopenLog, args, ret>>

\* main, after the loop: the summary is printed and the process exits; what
\* the run had read is gone
RunEnd ==
  /\ pc = "done"
  /\ pc' = "idle"
  /\ review' = NoReview
  /\ corpus' = << >>
  /\ worklist' = << >>
  /\ idx' = 1
  /\ calls' = {}
  /\ last' = NoLast
  /\ UNCHANGED <<issues, updated, faults, reopenLog, vtrace, args, ret>>

(***************************************************************************)
(* Verifier alone on first-generation issues, every run recorded           *)
(***************************************************************************)
InitFrom(iss, at, input, spent) ==
  /\ issues = iss
  /\ updated = Descending(1..Len(iss))
  /\ pc = at
  /\ review = NoReview
  /\ corpus = << >>
  /\ worklist = << >>
  /\ idx = 1
  /\ faults = spent
  /\ calls = {}
  /\ last = NoLast
  /\ reopenLog = [n \in 1..StoreCap |-> << >>]
  /\ vtrace = [n \in 1..StoreCap |-> << >>]
  /\ args = input
  /\ ret = << >>

InitWith(iss, at, input) == InitFrom(iss, at, input, 0)

InitStore(iss) == InitWith(iss, "idle", << >>)

\* the reviews of the verifier-only specification: one block at most
VReviews == {rv \in Reviews : Len(rv.recs) <= 1 /\ rv.files # {}}

InitV == \E i \in {1, 3} : InitStore(<<LegacyIssue(1, i)>>)

VStart == \E ok \in BOOLEAN : VerifierStart(VReviews, ok, TRUE)

VStep == VerifierStep(TRUE)

NextV == VStart \/ VStep \/ RunEnd

SpecV == InitV /\ [][NextV]_vars


(***************************************************************************)
(* Converter (ai_review_to_issues.py)                                      *)
(***************************************************************************)
\* get_all_ai_issues: the issues labelled ai-review, the open ones and then
\* the closed ones, each list most recently updated first; a list whose GET
\* fails is left out
ListByState(state) ==
  LET keep(n) == /\ issues[n].state = state
                 /\ PlainLabel("ai-review") \in issues[n].labels
  IN  Let(SelectSeq(updated, keep), LAMBDA ns :
        << >> \o [k \in 1..Len(ns) |-> <<ns[k], state>>])

get_all_ai_issues(open_ok, closed_ok) ==
  (IF open_ok THEN ListByState("open") ELSE << >>)
  \o (IF closed_ok THEN ListByState("closed") ELSE << >>)

\* the fetched issue records: title, body and creation time never change, the
\* state is the one seen by the fetch
Fetched(snapshot) ==
  Let(snapshot, LAMBDA snap :
    << >> \o
    [k \in 1..Len(snap) |-> [issues[snap[k][1]] EXCEPT !.state = snap[k][2]]])

\* create_new_issue: the issue that the POST creates
NewIssue(n, issue_data) ==
  Let(issue_data, LAMBDA d :
    [number     |-> n,
     title      |-> d.title,
     body       |-> NewIssueBody(d),
     state      |-> "open",
     labels     |-> d.labels,
     created_at |-> n,
     block      |-> d.block,
     meta_of    |-> 0])

\* create_meta_issue_for_recurring: the issue that the POST creates
MetaIssue(n, original_issue_number, reopen_count) ==
  [number     |-> n,
   title      |-> <<"[","M","E","T","A","]">>,
   body       |-> << Lit("Original Issue:"), Ws, Lit("#"),
                     Val("num", original_issue_number), Ws,
                     Lit("Reopened:"), Ws, Val("num", reopen_count), Ws,
                     Lit("times") >>,
   state      |-> "open",
   labels     |-> {PlainLabel("meta"), PlainLabel("recurring"),
                   PlainLabel("architectural"), PlainLabel("priority:high")},
   created_at |-> n,
   block      |-> 0,
   meta_of    |-> original_issue_number]

\* reopen thresholds
RecurringAt == 3

MetaIssueAt == 5

\* reopen_count = get_reopen_history(existing_body) + 1
ReopenCount(existing_body) == get_reopen_history(existing_body) + 1

\* handle_existing_open_issue: the labels after the two removals
handle_existing_open_issue(labels, F) ==
  remove_label(remove_label(labels, NotSeenLabel(1), "rm1" \notin F),
               NotSeenLabel(2), "rm2" \notin F)

\* a reopen that goes on with labels and comment after a failed PATCH
reopen_issue_past_failed_patch(st, F) ==
  Let(IF "get" \notin F THEN st.body ELSE << >>, LAMBDA existing_body :
  Let(IF "get" \notin F THEN st.labels ELSE {}, LAMBDA existing_labels :
  Let(ReopenCount(existing_body), LAMBDA reopen_count :
  Let(remove_label(st.labels, NotSeenLabel(1), "rm1" \notin F), LAMBDA l1 :
  Let(remove_label(l1, NotSeenLabel(2), "rm2" \notin F), LAMBDA l2 :
  Let(remove_label(l2, NotSeenLabel(3), "rm3" \notin F), LAMBDA l3 :
    [ok |-> "patch" \notin F, count |-> reopen_count,
     state |-> IF "patch" \in F THEN st.state ELSE "open",
     labels |-> l3,
     issued |-> {"get", "patch", "rm1", "rm2", "rm3", "comment"},
     meta |-> FALSE]))))))

\* reopen_issue on store issue st; F the calls that fail
reopen_issue(st, F) ==
  Let("get" \notin F, LAMBDA get_ok :
  Let(IF get_ok THEN st.body ELSE << >>, LAMBDA existing_body :
  Let(IF get_ok THEN st.labels ELSE {}, LAMBDA existing_labels :
  Let(ReopenCount(existing_body), LAMBDA reopen_count :
  Let(remove_label(st.labels, NotSeenLabel(1), "rm1" \notin F), LAMBDA l1 :
  Let(remove_label(l1, NotSeenLabel(2), "rm2" \notin F), LAMBDA l2 :
  Let(remove_label(l2, NotSeenLabel(3), "rm3" \notin F), LAMBDA l3 :
  Let(/\ reopen_count >= RecurringAt
      /\ PlainLabel("recurring") \notin existing_labels, LAMBDA flag :
  Let(IF flag
      THEN add_label(l3, PlainLabel("recurring"), "add_recurring" \notin F)
      ELSE l3, LAMBDA l4 :
  Let(reopen_count >= MetaIssueAt, LAMBDA meta :
      IF "patch" \in F
      THEN [ok |-> FALSE, count |-> reopen_count, state |-> st.state,
            labels |-> st.labels, issued |-> {"get", "patch"},
            meta |-> FALSE]
      ELSE [ok |-> TRUE, count |-> reopen_count, state |-> "open",
            labels |-> l4,
            issued |-> {"get", "patch", "rm1", "rm2", "rm3", "comment"}
                       \cup (IF flag THEN {"add_recurring"} ELSE {})
                       \cup (IF meta THEN {"meta_get"} ELSE {})
                       \cup (IF meta /\ "meta_get" \notin F
                             THEN {"meta_create"} ELSE {})
                       \cup (IF meta /\ {"meta_get", "meta_create"} \cap F = {}
                             THEN {"meta_comment"} ELSE {}),
            meta |-> meta /\ {"meta_get", "meta_create"} \cap F = {}]))))))))))

\* the calls that read the store; all others change it
ReadCalls == {"get", "meta_get"}

TotalReopens ==
  LET RECURSIVE sum(_)
      sum(n) == IF n = 0 THEN 0 ELSE Len(reopenLog[n]) + sum(n - 1)
  IN  sum(StoreCap)

\* main, up to the loop: parse the review, fetch the corpus
ConverterStartWithin(rv, open_ok, closed_ok, budget, room) ==
  /\ pc = "idle"
  /\ rv.recs # << >>
  /\ Len(issues) + Len(rv.recs) <= room
  /\ TotalReopens + Len(rv.recs) <= budget
  /\ LET failed == (IF open_ok THEN 0 ELSE 1) + (IF closed_ok THEN 0 ELSE 1)
     IN  /\ faults + failed <= MaxFaults
         /\ faults' = faults + failed
  /\ corpus' = get_all_ai_issues(open_ok, closed_ok)
  /\ review' = rv
  /\ pc' = "convert"
  /\ idx' = 1
  /\ calls' = {}
  /\ last' = NoLast
  /\ UNCHANGED <<issues, updated, worklist, reopenLog, vtrace, args, ret>>

\* the runs that leave room for one meta-issue in the store
ConverterStart(rv, open_ok, closed_ok, budget) ==
  ConverterStartWithin(rv, open_ok, closed_ok, budget, MaxIssues)

\* one iteration of "for idx, issue_data in enumerate(new_issues, 1)"
ConverterStep ==
  /\ pc = "convert"
  /\ \E issue_data \in {IssueData(review.recs[idx])} :
     \E m \in {find_matching_issue(Fetched(corpus), issue_data)} :
     \E n \in {m.number} :
         IF m.kind # "none" /\ m.state = "open"
         THEN \E F \in FaultSets({"rm1", "rm2", "comment"}) :
                /\ faults' = faults + Cardinality(F)
                /\ issues' = [issues EXCEPT ![n].labels =
                                handle_existing_open_issue(@, F)]
                /\ updated' = IF F = {"rm1", "rm2", "comment"} THEN updated
                              ELSE Touch(updated, n)
                /\ calls' = {<<n, c>> : c \in {"rm1", "rm2", "comment"}}
                /\ last' = [op |-> "update", block |-> issue_data.block,
                            kind |-> m.kind, number |-> n, count |-> 0,
                            failed |-> F]
                /\ UNCHANGED reopenLog
         ELSE IF m.kind # "none"
         THEN \E F \in FaultSets({"get", "patch", "rm1", "rm2", "rm3",
                                  "add_recurring", "comment", "meta_get",
                                  "meta_create", "meta_comment"}) :
              \E out \in {reopen_issue(issues[n], F)} :
              \E upd \in {[issues EXCEPT ![n] = Stored(@, out.labels, out.state)]} :
                    /\ F \subseteq out.issued
                    /\ faults' = faults + Cardinality(F)
                    /\ issues' = IF out.meta
                                 THEN Append(upd, MetaIssue(Len(issues) + 1, n,
                                                            out.count))
                                 ELSE upd
                    /\ updated' = IF out.meta
                                  THEN <<n, Len(issues) + 1>>
                                       \o SelectSeq(updated, LAMBDA x : x # n)
                                  ELSE IF out.ok THEN Touch(updated, n)
                                  ELSE updated
                    /\ calls' = {<<n, c>> : c \in out.issued \ ReadCalls}
                    /\ reopenLog' = IF out.ok
                                    THEN [reopenLog EXCEPT ![n] = Append(@, out.count)]
                                    ELSE reopenLog
                    /\ last' = [op |-> IF out.ok THEN "reopen" ELSE "reopen_failed",
                                block |-> issue_data.block, kind |-> m.kind,
                                number |-> n, count |-> out.count,
                                failed |-> F]
         ELSE \E F \in FaultSets({"create"}) :
                /\ faults' = faults + Cardinality(F)
                /\ issues' = IF F = {} THEN Append(issues,
                                  NewIssue(Len(issues) + 1, issue_data))
                             ELSE issues
                /\ updated' = IF F = {} THEN <<Len(issues) + 1>> \o updated
                              ELSE updated
                /\ calls' = {}
                /\ last' = [op |-> IF F = {} THEN "create" ELSE "create_failed",
                            block |-> issue_data.block, kind |-> "none",
                            number |-> IF F = {} THEN Len(issues) + 1 ELSE 0,
                            count |-> 0, failed |-> F]
                /\ UNCHANGED reopenLog
  /\ idx' = idx + 1
  /\ pc' = NextRecord(idx, Len(review.recs), "convert", faults' > faults)
  /\ UNCHANGED <<review, corpus, worklist, vtrace, args, ret>>

\* a user of the store closes an open tracked issue between two runs
UserClose(n) ==
  /\ pc = "idle"
  /\ n \in IssueNumbers
  /\ issues[n].state = "open"
  /\ issues[n].meta_of = 0
  /\ issues' = [issues EXCEPT ![n].state = "closed"]
  /\ updated' = Touch(updated, n)
  /\ calls' = {}
  /\ last' = NoLast
  /\ UNCHANGED <<pc, review, corpus, worklist, idx, faults, reopenLog, vtrace,
                 args, ret>>

(***************************************************************************)
(* The pipeline: converter and verifier runs, one at a time                *)
(***************************************************************************)
Init == \E iss \in {<< >>, <<LegacyIssue(1, 3)>>} :
          InitStore(iss)

\* the reviews of the converter: the files of the blocks and no others
CReviews ==
  {rv \in Reviews :
     rv.files = {Catalog[rv.recs[i]].file_path : i \in 1..Len(rv.recs)}}

CStart ==
  \E rv \in CReviews, open_ok \in BOOLEAN, closed_ok \in BOOLEAN :
    ConverterStart(rv, open_ok, closed_ok, MaxReopens)

RStart == \E ok \in BOOLEAN : VerifierStart(VReviews, ok, FALSE)

RStep == VerifierStep(FALSE)

Close == \E n \in 1..MaxIssues : UserClose(n)

Next == CStart \/ ConverterStep \/ RStart \/ RStep \/ RunEnd \/ Close

Spec == Init /\ [][Next]_vars


(***************************************************************************)
(* Recurrence: close and re-detect cycles, one record per review           *)
(***************************************************************************)
\* bound: reopens performed in one behaviour of the recurrence cycles
MaxCycles == 5

InitR == \E iss \in {<< >>, <<LegacyIssue(1, 1)>>} : InitStore(iss)

CStartR ==
  \E rv \in {r \in CReviews : Len(r.recs) = 1},
     open_ok \in BOOLEAN, closed_ok \in BOOLEAN :
    ConverterStart(rv, open_ok, closed_ok, MaxCycles)

NextR == CStartR \/ ConverterStep \/ RunEnd \/ Close

SpecR == InitR /\ [][NextR]_vars

(***************************************************************************)
(* generate_issue_fingerprint on pairs of issue blocks                     *)
(***************************************************************************)
TitleTimer == <<"T","i","m","e","r"," ","n","o","t"," ","c","l","e","a","r","e","d">>

CodeTimer == <<"s","e","t","T","i","m","e","o","u","t","(","f",")">>

FpBlocks ==
  {Block(f, t, c) : f \in {FileA, FileB, FileBLine},
                    t \in {TitleLeak, TitleCleanup, TitleOdd, TitleTimer},
                    c \in {CodeHook, CodeEmpty, CodeTimer}}

InitFp == \E a \in FpBlocks, b \in FpBlocks : InitWith(<< >>, "fingerprint", <<a, b>>)

\* both blocks are fingerprinted as parse_ai_review does it
Fingerprint ==
  /\ pc = "fingerprint"
  /\ ret' = [k \in 1..2 |->
               generate_issue_fingerprint(args[k].file_path, args[k].title,
                                          args[k].problem, args[k].current_code,
                                          << >>)]
  /\ pc' = "fingerprinted"
  /\ UNCHANGED <<issues, updated, review, corpus, worklist, idx, faults, calls,
                 last, reopenLog, vtrace, args>>

NextFp == Fingerprint

SpecFp == InitFp /\ [][NextFp]_vars

(***************************************************************************)
(* find_matching_issue on corpora of issues of every body format           *)
(***************************************************************************)
\* bound: issues in the corpus handed to find_matching_issue
MaxCorpus == 2

\* a body that follows the metadata schema the regular expressions read:
\* "AI-ID: x", "FINGERPRINT: x", "CATEGORY: x" with no markup
SchemaIssueBody(issue_data) ==
  Let(issue_data.fingerprint_data, LAMBDA fp :
      << Lit("**"), Lit("File:"), Lit("**"), Ws,
         Backtick, Val("path", issue_data.file_path), Backtick, Ws,
         Lit("AI-ID:"), Ws, Val("hex", fp.simple_id), Ws,
         Lit("FINGERPRINT:"), Ws, Val("hex", fp.fingerprint), Ws,
         Lit("CATEGORY:"), Ws, Val("cat", fp.category) >>)

BodyFormats == {"new", "legacy", "schema"}

\* issue number n in the format fmt, made from catalog block i
CorpusIssue(n, i, fmt, state) ==
  Let(IssueData(i), LAMBDA d :
    [number     |-> n,
     title      |-> d.title,
     body       |-> IF fmt = "new" THEN NewIssueBody(d)
                    ELSE IF fmt = "legacy"
                    THEN LegacyIssueBody(d.file_path, d.fingerprint_data.simple_id)
                    ELSE SchemaIssueBody(d),
     state      |-> state,
     labels     |-> d.labels,
     created_at |-> n,
     block      |-> i,
     meta_of    |-> 0])

CorpusEntries ==
  {<<i, fmt, state>> : i \in 1..Len(Catalog), fmt \in BodyFormats,
                       state \in {"open", "closed"}}

InitMatch ==
  \E n \in 0..MaxCorpus : \E s \in [1..n -> CorpusEntries], i \in 1..Len(Catalog) :
    InitWith(<< >>, "match",
             [all_issues |-> << >> \o [k \in 1..Len(s) |->
                               CorpusIssue(k, s[k][1], s[k][2], s[k][3])],
              new_issue_data |-> IssueData(i)])

Match ==
  /\ pc = "match"
  /\ \E r \in {find_matching_issue(args.all_issues, args.new_issue_data)} :
       ret' = r
  /\ pc' = "matched"
  /\ UNCHANGED <<issues, updated, review, corpus, worklist, idx, faults, calls,
                 last, reopenLog, vtrace, args>>

NextMatch == Match

SpecMatch == InitMatch /\ [][NextMatch]_vars


(***************************************************************************)
(* Confirmation counter (verifier)                                         *)
(***************************************************************************)
\* number of consecutive not-detected runs that end with run k of trace tr
TrailingNotDetected(tr, k) ==
  LET runs == {m \in 0..k : \A j \in (k - m + 1)..k : ~tr[j].detected}
  IN  CHOOSE m \in runs : \A x \in runs : m >= x

\* C1: while no store call has failed, after every verifier run that reviewed
\* the file of an open issue the counter on its labels is the number of
\* consecutive not-detected runs since the last detection (no counter label
\* right after a detection), the run reports tracking below three and closed
\* at three, and the issue is closed exactly by the third such run.
Thm_C1 ==
  faults = 0 =>
    \A n \in IssueNumbers : \A k \in 1..Len(vtrace[n]) :
      LET e  == vtrace[n][k]
          nd == TrailingNotDetected(vtrace[n], k)
      IN  /\ e.counts = IF nd = 0 THEN {} ELSE {nd}
          /\ e.closed = (nd = ConfirmationsNeeded)
          /\ e.result = IF e.detected THEN "still_exists"
                        ELSE IF nd = ConfirmationsNeeded THEN "closed"
                        ELSE "tracking"

\* the outcome sequence not-detected, not-detected, detected, not-detected,
\* not-detected, not-detected has been played on issue 1 without a failure
Witness_C1 ==
  /\ faults = 0
  /\ Len(vtrace[1]) = 6
  /\ [k \in 1..6 |-> vtrace[1][k].result]
       = <<"tracking", "tracking", "still_exists", "tracking", "tracking", "closed">>
  /\ [k \in 1..6 |-> vtrace[1][k].counts] = <<{1}, {2}, {}, {1}, {2}, {3}>>
  /\ issues[1].state = "closed"

\* C2: the verifier closes an issue only if the three most recent runs that
\* reviewed its file each did not detect it, whichever store calls failed.
Claim_C2 ==
  \A n \in IssueNumbers : \A k \in 1..Len(vtrace[n]) :
    vtrace[n][k].closed =>
      /\ k >= ConfirmationsNeeded
      /\ \A j \in (k - ConfirmationsNeeded + 1)..k : ~vtrace[n][j].detected

(***************************************************************************)
(* Unreviewed files                                                        *)
(***************************************************************************)
\* the file an issue body names
IssueFile(n) == ExtractFile(issues[n].body)

\* the files of the current review with their line suffixes stripped
ReviewedNormalized == {NormalizeFile(f) : f \in review.files}

\* C3 as stated: every store mutation a run issues is for an issue whose file
\* is among the files of the current review.
Claim_C3 == \A c \in calls : IssueFile(c[1]) \in review.files

\* C3: every store mutation a run issues is for an issue whose file, its
\* ":<line>" suffix stripped, is among the files of the current review with
\* their suffixes stripped; an issue on any other file is left as it was.
Thm_C3 == \A c \in calls : NormalizeFile(IssueFile(c[1])) \in ReviewedNormalized

\* a verifier run has gone through a work list that holds an issue on a file
\* the review does not cover, and has issued no call
Witness_C3 ==
  /\ pc = "done"
  /\ worklist # << >>
  /\ \E k \in 1..Len(worklist) :
       /\ issues[worklist[k].number].state = "open"
       /\ NormalizeFile(worklist[k].file_path) \notin ReviewedNormalized
  /\ calls = {}

(***************************************************************************)
(* Recurrence                                                              *)
(***************************************************************************)
\* the fingerprint written on the FINGERPRINT line of a body, None if the
\* body has no such line
WrittenFingerprint(body) ==
  LET at  == {i \in 1..Len(body) : IsLit(body[i], "FINGERPRINT:")}
      hex == {j \in 1..Len(body) : body[j].k = "hex" /\ \E i \in at : i < j}
  IN  IF hex = {} THEN None ELSE body[MinPos(hex)].v

MetaIssuesOf(n) == {m \in IssueNumbers : issues[m].meta_of = n}

\* C4: a converter-created issue that has been reopened three times was
\* reopened with count 3 and carries the recurring label; after fewer reopens
\* it does not carry the label.
Claim_C4 ==
  \A n \in IssueNumbers :
    WrittenFingerprint(issues[n].body) # None =>
      /\ Len(reopenLog[n]) = RecurringAt =>
           /\ reopenLog[n][RecurringAt] = RecurringAt
           /\ PlainLabel("recurring") \in issues[n].labels
      /\ Len(reopenLog[n]) < RecurringAt =>
           PlainLabel("recurring") \notin issues[n].labels

\* C5: an issue has no meta-issue after its first four reopens and exactly
\* one, linking back to it, after its fifth.
Claim_C5 ==
  \A n \in IssueNumbers :
    /\ Len(reopenLog[n]) < MetaIssueAt => MetaIssuesOf(n) = {}
    /\ Len(reopenLog[n]) = MetaIssueAt => Cardinality(MetaIssuesOf(n)) = 1

\* C6: the count reopen_issue logs for a reopen is greater than the count it
\* logged for every earlier reopen of the same issue.
Claim_C6 ==
  \A n \in IssueNumbers :
    \A j \in 1..Len(reopenLog[n]) : \A k \in 1..Len(reopenLog[n]) :
      j < k => reopenLog[n][j] < reopenLog[n][k]

(***************************************************************************)
(* Deduplication                                                           *)
(***************************************************************************)
\* C7: no two issues of the store carry the same fingerprint.
Claim_C7 ==
  \A n \in IssueNumbers : \A m \in IssueNumbers :
    (n # m /\ WrittenFingerprint(issues[n].body) # None) =>
      WrittenFingerprint(issues[n].body) # WrittenFingerprint(issues[m].body)

Claim_C9 ==
  last.op \in {"create", "create_failed", "update", "reopen", "reopen_failed"} =>
    \A k \in 1..Len(corpus) :
      LET n == corpus[k][1]
          j == issues[n].block
          b == last.block
      IN  (/\ WrittenFingerprint(issues[n].body) # None
           /\ Catalog[j].file_path = Catalog[b].file_path
           /\ CatalogFp[j].category = CatalogFp[b].category
           /\ Catalog[j].current_code = Catalog[b].current_code
           /\ Catalog[j].title # Catalog[b].title)
            => last.kind = "exact" /\ last.op \notin {"create", "create_failed"}

(***************************************************************************)
(* Tier priority of find_matching_issue                                    *)
(***************************************************************************)
\* the numbers of the corpus issues that match the candidate in each tier
ExactHits(all_issues, new_issue_data) ==
  {all_issues[k].number : k \in
     {k \in 1..Len(all_issues) :
        LET md == extract_issue_metadata(all_issues[k])
        IN  /\ md.fingerprint # None
            /\ md.fingerprint = new_issue_data.fingerprint_data.fingerprint}}

SimpleHits(all_issues, new_issue_data) ==
  {all_issues[k].number : k \in
     {k \in 1..Len(all_issues) :
        LET md == extract_issue_metadata(all_issues[k])
        IN  /\ md.simple_id # None
            /\ md.simple_id = new_issue_data.fingerprint_data.simple_id}}

FuzzyHits(all_issues, new_issue_data) ==
  {all_issues[k].number : k \in
     {k \in 1..Len(all_issues) :
        LET md == extract_issue_metadata(all_issues[k])
        IN  /\ md.file_path = new_issue_data.fingerprint_data.file
            /\ md.category = new_issue_data.fingerprint_data.category
            /\ titles_are_similar(md.title, new_issue_data.title,
                                  StrictThreshold, TRUE)}}

\* C10: the result is an exact hit tagged exact if the corpus has one, else a
\* simple hit tagged simple if it has one, else a fuzzy hit tagged fuzzy if
\* it has one, else no match; the position of the hits does not matter.
Thm_C10 ==
  pc = "matched" =>
    LET E == ExactHits(args.all_issues, args.new_issue_data)
        S == SimpleHits(args.all_issues, args.new_issue_data)
        Z == FuzzyHits(args.all_issues, args.new_issue_data)
    IN  IF E # {} THEN ret.kind = "exact" /\ ret.number \in E
        ELSE IF S # {} THEN ret.kind = "simple" /\ ret.number \in S
        ELSE IF Z # {} THEN ret.kind = "fuzzy" /\ ret.number \in Z
        ELSE ret = NoMatch

\* the exact hit is the last issue of the corpus, behind an issue that is a
\* simple hit or a fuzzy hit and no exact hit, and it is the result
Witness_C10 ==
  /\ pc = "matched"
  /\ Len(args.all_issues) = 2
  /\ ExactHits(args.all_issues, args.new_issue_data) = {2}
  /\ 1 \in SimpleHits(args.all_issues, args.new_issue_data)
            \cup FuzzyHits(args.all_issues, args.new_issue_data)
  /\ ret.kind = "exact"
  /\ ret.number = 2

(***************************************************************************)
(* Metadata round trip of create_new_issue                                 *)
(***************************************************************************)
\* C11: the body that create_new_issue has just written gives back, through
\* extract_issue_metadata, the fingerprint, the simple id, the category and
\* the file path it was written from, and get_reopen_history reads 0 from it.
Claim_C11 ==
  last.op = "create" =>
    LET d  == IssueData(last.block)
        fp == d.fingerprint_data
        md == extract_issue_metadata(issues[last.number])
    IN  /\ md.fingerprint = fp.fingerprint
        /\ md.simple_id = fp.simple_id
        /\ md.category = fp.category
        /\ md.file_path = d.file_path
        /\ get_reopen_history(issues[last.number].body) = 0

(***************************************************************************)
(* Auto-close of converter-created issues: verifier runs on a store that   *)
(* holds a first-generation issue and a converter-created issue on the     *)
(* same file; no review re-detects anything                                *)
(***************************************************************************)
\* reviews with no critical block
QuietReviews == {rv \in Reviews : rv.recs = << >> /\ rv.files # {}}

InitQuiet ==
  \E i \in 1..Len(Catalog), j \in 1..Len(Catalog) :
    /\ Catalog[i].file_path = Catalog[j].file_path
    /\ InitStore(<<LegacyIssue(1, i), NewIssue(2, IssueData(j))>>)

QStart == \E ok \in BOOLEAN : VerifierStart(QuietReviews, ok, TRUE)

QStep == VerifierStep(TRUE)

NextQuiet == QStart \/ QStep \/ RunEnd

SpecQuiet == InitQuiet /\ [][NextQuiet]_vars

\* issue n carries the body that create_new_issue writes
CreatedByConverter(n) ==
  /\ issues[n].block # 0
  /\ issues[n].body = NewIssueBody(IssueData(issues[n].block))

\* C12: with no failed store call, an open converter-created issue whose file
\* is among the files of the run's review is in the run's work list, and
\* when the third run that reviewed its file without re-detecting anything
\* has ended (issue 1, on the same file, has three recorded runs) the issue is
\* closed.
Claim_C12 ==
  faults = 0 =>
    \A n \in IssueNumbers :
      CreatedByConverter(n) =>
        /\ ( /\ pc \in {"verify", "done"}
             /\ issues[n].state = "open"
             /\ IssueFile(n) \in review.files )
           => \E k \in 1..Len(worklist) : worklist[k].number = n
        /\ ( /\ pc = "done"
             /\ IssueFile(n) = IssueFile(1)
             /\ Len(vtrace[1]) = ConfirmationsNeeded )
           => issues[n].state = "closed"

(***************************************************************************)
(* The confirmation counter labels                                         *)
(***************************************************************************)
\* C13: every issue carries at most one of the labels ai-not-seen-{N}x, also
\* after runs in which store calls failed.
Claim_C13 ==
  \A n \in IssueNumbers : Cardinality(NotSeenCounts(issues[n].labels)) <= 1

\* C14: the counter label of an issue is never above 3, and an issue that is
\* open never carries ai-not-seen-3x, also when the closing PATCH failed.
Claim_C14 ==
  \A n \in IssueNumbers :
    \A c \in NotSeenCounts(issues[n].labels) :
      /\ c <= ConfirmationsNeeded
      /\ issues[n].state = "open" => c # ConfirmationsNeeded

(***************************************************************************)
(* reopen_issue                                                            *)
(***************************************************************************)
\* C15: after a reopen_issue that returned True the issue is open, carries
\* none of ai-not-seen-1x/2x/3x, and the one reopened comment has been posted
\* and states the number of times the issue has now been reopened.
Claim_C15 ==
  last.op = "reopen" =>
    /\ issues[last.number].state = "open"
    /\ NotSeenCounts(issues[last.number].labels) \cap {1, 2, 3} = {}
    /\ <<last.number, "comment">> \in calls
    /\ "comment" \notin last.failed
    /\ last.count = Len(reopenLog[last.number])

(***************************************************************************)
(* Verifier and converter on the same review                               *)
(***************************************************************************)
\* the verifier's test in verify_with_confirmation: the fetched issue's AI-ID
\* is among the ids parsed from the current review
VerifierDetects(n) ==
  \E k \in 1..Len(worklist) :
    /\ worklist[k].number = n
    /\ worklist[k].ai_id \in parse_current_review_issues(review)

\* the converter's matcher maps some record of the current review to issue n
ConverterDetects(n) ==
  \E r \in 1..Len(review.recs) :
    find_matching_issue(Fetched(get_all_ai_issues(TRUE, TRUE)),
                        IssueData(review.recs[r])).number = n

\* C16: in a verifier run, for every open tracked issue whose file was
\* reviewed, the verifier takes the issue as detected again exactly when the
\* converter's matcher maps some record of the same review to the issue.
Claim_C16 ==
  (pc = "verify" /\ idx = 1) =>
    \A n \in IssueNumbers :
      ( /\ issues[n].state = "open"
        /\ issues[n].meta_of = 0
        /\ ExtractFile(issues[n].body) \in review.files )
      => (VerifierDetects(n) <=> ConverterDetects(n))

(***************************************************************************)
(* The fuzzy tier of find_matching_issue: titles at several distances, a   *)
(* block of another category and a block of another file, creation times   *)
(* that do not follow the order of the list                                *)
(***************************************************************************)
TitleOldNames == <<"O","l","d"," ","n","a","m","e","s">>

TitleOldFame == <<"O","l","d"," ","f","a","m","e">>

TitleOldFate == <<"O","l","d"," ","f","a","t","e">>

CodeXss == <<"x","s","s">>

FuzzyCatalog ==
  << Block(FileB, TitleOdd, CodeEmpty),
     Block(FileB, TitleOldNames, CodeEmpty),
     Block(FileB, TitleOldFame, CodeEmpty),
     Block(FileB, TitleOldFate, CodeEmpty),
     Block(FileB, TitleOdd, CodeXss),
     Block(FileA, TitleOdd, CodeEmpty) >>

FuzzyFp ==
  << >> \o
  [i \in 1..Len(FuzzyCatalog) |->
     generate_issue_fingerprint(FuzzyCatalog[i].file_path, FuzzyCatalog[i].title,
                                FuzzyCatalog[i].problem,
                                FuzzyCatalog[i].current_code, << >>)]

\* parse_ai_review: the issue record built from block i of FuzzyCatalog
FuzzyData(i) ==
  Let(FuzzyCatalog[i], LAMBDA b : Let(FuzzyFp[i], LAMBDA fp :
    [title            |-> AITitle(b.title),
     file_path        |-> b.file_path,
     labels           |-> BaseLabels \cup {PlainLabel(fp.category)}
                          \cup PathLabels(b.file_path),
     fingerprint_data |-> fp,
     block            |-> i]))

\* bound: issues in the corpus of the fuzzy tier
MaxFuzzy == 2

CreationTimes == {1, 2}

\* issue number n made from block e[1] in format e[2], created at time e[3]
FuzzyIssue(n, e) ==
  Let(FuzzyData(e[1]), LAMBDA d :
    [number     |-> n,
     title      |-> d.title,
     body       |-> IF e[2] = "new" THEN NewIssueBody(d) ELSE SchemaIssueBody(d),
     state      |-> "open",
     labels     |-> d.labels,
     created_at |-> e[3],
     block      |-> e[1],
     meta_of    |-> 0])

\* the issues a corpus is made of, each as <<block, format, creation time>>
FuzzyEntries ==
  {<<i, fmt, t>> : i \in 1..Len(FuzzyCatalog),
                   fmt \in {"new", "schema"}, t \in CreationTimes}

InitFuzzy ==
  \E n \in 0..MaxFuzzy : \E s \in [1..n -> FuzzyEntries], i \in {1, 5} :
    InitWith(<< >>, "match",
             [all_issues     |-> << >> \o [k \in 1..Len(s) |-> FuzzyIssue(k, s[k])],
              new_issue_data |-> FuzzyData(i)])

SpecFuzzy == InitFuzzy /\ [][NextMatch]_vars

\* the category written on the CATEGORY line of a body, None if the body has
\* no such line
WrittenCategory(body) ==
  LET at  == {i \in 1..Len(body) : IsLit(body[i], "CATEGORY:")}
      cat == {j \in 1..Len(body) : body[j].k = "cat" /\ \E i \in at : i < j}
  IN  IF cat = {} THEN None ELSE body[MinPos(cat)].v

\* C17: an issue returned by the fuzzy tier has the candidate's normalized
\* file and the candidate's category, its normalized title is similar to the
\* candidate's at 0.75 or more, and no issue that the tier accepts was created
\* later.
Claim_C17 ==
  (pc = "matched" /\ ret.kind = "fuzzy") =>
    LET d   == args.new_issue_data
        iss == args.all_issues[ret.number]
    IN  /\ NormalizeFile(ExtractFile(iss.body)) = NormalizeFile(d.file_path)
        /\ WrittenCategory(iss.body) = d.fingerprint_data.category
        /\ RatioAtLeast(normalize_title(iss.title), normalize_title(d.title),
                        LenientThreshold)
        /\ \A n \in FuzzyHits(args.all_issues, d) :
             args.all_issues[n].created_at <= iss.created_at

(***************************************************************************)
(* Duplicate sweep (cleanup_duplicates.py).  Its normalize_title and       *)
(* extract_file_path are the converter's normalize_title and the File      *)
(* pattern of extract_issue_metadata, character for character.             *)
(***************************************************************************)
\* cleanup_duplicates.titles_are_similar: no empty-title test, threshold 0.85
cleanup_titles_are_similar(title1, title2) ==
  Let(normalize_title(title1), LAMBDA norm1 :
  Let(normalize_title(title2), LAMBDA norm2 :
    RatioAtLeast(norm1, norm2, StrictThreshold)))

extract_file_path(issue_body) == ExtractFile(issue_body)

\* cleanup_duplicates.get_all_ai_issues: the open list, then the closed list,
\* each in the store's default order (newest first); a list whose GET fails is
\* left out
cleanup_get_all_ai_issues(open_ok, closed_ok) ==
  LET list(state) ==
        Let(Descending({n \in IssueNumbers :
                          /\ issues[n].state = state
                          /\ PlainLabel("ai-review") \in issues[n].labels}),
            LAMBDA ns : << >> \o [k \in 1..Len(ns) |-> <<ns[k], state>>])
  IN  (IF open_ok THEN list("open") ELSE << >>)
      \o (IF closed_ok THEN list("closed") ELSE << >>)

\* duplicates.sort(key=created_at, reverse=True): the issue numbers of ms by
\* descending creation time; the stable sort keeps the list order among equals
RECURSIVE ByCreatedDesc(_)
ByCreatedDesc(ms) ==
  IF ms = << >> THEN << >>
  ELSE Let(CHOOSE i \in 1..Len(ms) :
             \A j \in 1..Len(ms) :
               \/ ms[i].created_at > ms[j].created_at
               \/ ms[i].created_at = ms[j].created_at /\ i <= j,
           LAMBDA i : <<ms[i].number>>
                      \o ByCreatedDesc(AtPositions(ms, (1..Len(ms)) \ {i})))

\* a loop whose inner loop lacks "if issue2['number'] in processed: continue"
RECURSIVE DuplicateLoop_unprocessed(_, _, _)
DuplicateLoop_unprocessed(xs, i, processed) ==
  IF i > Len(xs) THEN << >>
  ELSE IF xs[i].number \in processed
       THEN DuplicateLoop_unprocessed(xs, i + 1, processed)
  ELSE Let(extract_file_path(xs[i].body), LAMBDA file1 :
       Let({j \in (i + 1)..Len(xs) :
              /\ file1 = extract_file_path(xs[j].body)
              /\ cleanup_titles_are_similar(xs[i].title, xs[j].title)},
           LAMBDA J :
         IF J = {} THEN DuplicateLoop_unprocessed(xs, i + 1, processed)
         ELSE <<ByCreatedDesc(<<xs[i]>> \o AtPositions(xs, J))>>
              \o DuplicateLoop_unprocessed(xs, i + 1,
                               processed \cup {xs[j].number : j \in J}
                                         \cup {xs[i].number})))

\* the loop "for i, issue1 in enumerate(issues)" from position i on, with the
\* set processed
RECURSIVE DuplicateLoop(_, _, _)
DuplicateLoop(xs, i, processed) ==
  IF i > Len(xs) THEN << >>
  ELSE IF xs[i].number \in processed THEN DuplicateLoop(xs, i + 1, processed)
  ELSE Let(extract_file_path(xs[i].body), LAMBDA file1 :
       Let({j \in (i + 1)..Len(xs) :
              /\ xs[j].number \notin processed
              /\ file1 = extract_file_path(xs[j].body)
              /\ cleanup_titles_are_similar(xs[i].title, xs[j].title)},
           LAMBDA J :
         IF J = {} THEN DuplicateLoop(xs, i + 1, processed)
         ELSE <<ByCreatedDesc(<<xs[i]>> \o AtPositions(xs, J))>>
              \o DuplicateLoop(xs, i + 1,
                               processed \cup {xs[j].number : j \in J}
                                         \cup {xs[i].number})))

\* the groups as lists of issue numbers, the keeper first
find_duplicate_groups(all_issues) ==
  Let(all_issues, LAMBDA xs : DuplicateLoop(xs, 1, {}))

\* the close_duplicate calls of main, in order: "for group in duplicate_groups:
\* keeper = group[0]; for dup in group[1:]"
RECURSIVE ClosePlan(_)
ClosePlan(groups) ==
  IF groups = << >> THEN << >>
  ELSE Let(groups[1], LAMBDA g :
         (<< >> \o [k \in 1..(Len(g) - 1) |->
                     [dup |-> g[k + 1], keeper |-> g[1]]])
         \o ClosePlan(Tail(groups)))

\* what a store call does: it succeeds, it is answered with an error status
\* (requests returns the response), or it raises (no connection)
CallOutcomes == {"ok", "rejected", "raised"}

\* the outcomes of the POST of the comment and of the PATCH of one
\* close_duplicate call; after a POST that raised there is no PATCH
CloseOutcomes ==
  {o \in [post : CallOutcomes, patch : CallOutcomes] :
     o.post = "raised" => o.patch = "ok"}

Failures(o) == Cardinality({c \in {"post", "patch"} : o[c] # "ok"})

\* a close_duplicate that makes its calls in dry-run mode too
close_duplicate_always_live(issue_number, kept_issue_number, dry_run, o) ==
  [dup     |-> issue_number,
   keeper  |-> kept_issue_number,
   posted  |-> o.post = "ok",
   patched |-> o.post # "raised" /\ o.patch = "ok",
   result  |-> o.post # "raised" /\ o.patch # "raised",
   issued  |-> {"comment"} \cup (IF o.post = "raised" THEN {} ELSE {"patch"})]

\* close_duplicate: the statuses of the two responses are not looked at
close_duplicate(issue_number, kept_issue_number, dry_run, o) ==
  IF dry_run
  THEN [dup |-> issue_number, keeper |-> kept_issue_number,
        posted |-> FALSE, patched |-> FALSE, result |-> TRUE, issued |-> {}]
  ELSE [dup     |-> issue_number,
        keeper  |-> kept_issue_number,
        posted  |-> o.post = "ok",
        patched |-> o.post # "raised" /\ o.patch = "ok",
        result  |-> o.post # "raised" /\ o.patch # "raised",
        issued  |-> {"comment"} \cup (IF o.post = "raised" THEN {} ELSE {"patch"})]

\* main, up to the closing loop; confirm is the answer to "Continue?" of the
\* live mode
SweepStart(dry_run, confirm, open_ok, closed_ok) ==
  /\ pc = "idle"
  /\ review' = NoReview
  /\ idx' = 1
  /\ calls' = {}
  /\ last' = NoLast
  /\ ret' = << >>
  /\ IF ~dry_run /\ ~confirm
     THEN /\ pc' = "done"
          /\ args' = [credentials |-> TRUE, dry_run |-> dry_run, groups |-> << >>]
          /\ corpus' = << >>
          /\ worklist' = << >>
          /\ UNCHANGED faults
     ELSE /\ LET failed == (IF open_ok THEN 0 ELSE 1) + (IF closed_ok THEN 0 ELSE 1)
             IN  /\ faults + failed <= MaxFaults
                 /\ faults' = faults + failed
          /\ \E all_issues \in {cleanup_get_all_ai_issues(open_ok, closed_ok)} :
             \E duplicate_groups \in {find_duplicate_groups(Fetched(all_issues))} :
               /\ corpus' = all_issues
               /\ args' = [credentials |-> TRUE, dry_run |-> dry_run,
                           groups |-> duplicate_groups]
               /\ worklist' = ClosePlan(duplicate_groups)
               /\ pc' = IF duplicate_groups = << >> THEN "done" ELSE "sweep"
  /\ UNCHANGED <<issues, updated, reopenLog, vtrace>>

\* one close_duplicate call of the closing loop
SweepStep ==
  /\ pc = "sweep"
  /\ \E o \in CloseOutcomes :
       /\ args.dry_run => Failures(o) = 0
       /\ faults + Failures(o) <= MaxFaults
       /\ \E r \in {close_duplicate(worklist[idx].dup, worklist[idx].keeper,
                                    args.dry_run, o)} :
            /\ faults' = faults + Failures(o)
            /\ issues' = IF r.patched
                         THEN [issues EXCEPT ![r.dup] = Stored(@, @.labels, "closed")]
                         ELSE issues
            /\ updated' = IF r.patched THEN Touch(updated, r.dup) ELSE updated
            /\ calls' = calls \cup {<<r.dup, c>> : c \in r.issued}
            /\ ret' = Append(ret, [dup |-> r.dup, keeper |-> r.keeper,
                                   posted |-> r.posted, patched |-> r.patched,
                                   result |-> r.result])
  /\ idx' = idx + 1
  /\ pc' = NextRecord(idx, Len(worklist), "sweep", faults' > faults)
  /\ UNCHANGED <<review, corpus, worklist, last, reopenLog, vtrace, args>>

TitleOldName == <<"O","l","d"," ","n","a","m","e">>

\* bound: issues in the store of the sweep
MaxSweep == 3

\* issue number n with title e[1] on file e[2] in state e[3]; SweepEntries
\* are the triples a store is made of
SweepIssue(n, e) ==
  [number     |-> n,
   title      |-> AITitle(e[1]),
   body       |-> LegacyIssueBody(e[2], Md5(e[2] \o <<":">> \o e[1])),
   state      |-> e[3],
   labels     |-> BaseLabels,
   created_at |-> n,
   block      |-> 0,
   meta_of    |-> 0]

SweepEntries ==
  {<<t, FileA, "open">> : t \in {TitleOdd, TitleOldName, TitleOldNames}}
  \cup {<<TitleOdd, FileA, "closed">>, <<TitleOldName, FileA, "closed">>,
        <<TitleOdd, FileB, "open">>}

InitSweep ==
  \E n \in 0..MaxSweep : \E s \in [1..n -> SweepEntries] :
    InitStore(<< >> \o [k \in 1..Len(s) |-> SweepIssue(k, s[k])])

SStart ==
  \E dry_run \in BOOLEAN, confirm \in BOOLEAN,
     open_ok \in BOOLEAN, closed_ok \in BOOLEAN :
    SweepStart(dry_run, confirm, open_ok, closed_ok)

NextSweep == SStart \/ SweepStep

SpecSweep == InitSweep /\ [][NextSweep]_vars

\* the members of a group and the one created last among them
Members(g) == {g[k] : k \in 1..Len(g)}

MostRecent(g) ==
  CHOOSE m \in Members(g) :
    \A x \in Members(g) : issues[x].created_at <= issues[m].created_at

\* the state of issue n as the sweep fetched it
FetchedState(n) ==
  (CHOOSE e \in {corpus[k] : k \in 1..Len(corpus)} : e[1] = n)[2]

\* the sweep has closed duplicate n with a comment that names keeper
ClosedWithComment(n, keeper) ==
  /\ issues[n].state = "closed"
  /\ \E k \in 1..Len(ret) :
       /\ ret[k].dup = n /\ ret[k].keeper = keeper
       /\ ret[k].posted /\ ret[k].patched

\* C18: after a live sweep, of every group that find_duplicate_groups returns
\* all members but the one created last are closed with a comment that names
\* it, the one created last has the state it was fetched with, and no other
\* issue was closed; of three issues on one file with pairwise similar titles
\* exactly two were closed.
Claim_C18 ==
  (pc = "done" /\ ~args.dry_run /\ corpus # << >>) =>
    LET groups  == find_duplicate_groups(Fetched(corpus))
        fetched == {corpus[k][1] : k \in 1..Len(corpus)}
        patched == {ret[k].dup : k \in {j \in 1..Len(ret) : ret[j].patched}}
    IN  /\ \A i \in 1..Len(groups) :
             LET keeper == MostRecent(groups[i])
             IN  /\ \A n \in Members(groups[i]) \ {keeper} :
                      ClosedWithComment(n, keeper)
                 /\ issues[keeper].state = FetchedState(keeper)
                 /\ keeper \notin patched
        /\ patched \subseteq
             UNION {Members(groups[i]) \ {MostRecent(groups[i])} :
                      i \in 1..Len(groups)}
        /\ ( /\ Cardinality(fetched) = 3
             /\ \A x \in fetched, y \in fetched :
                  /\ extract_file_path(issues[x].body) = extract_file_path(issues[y].body)
                  /\ cleanup_titles_are_similar(issues[x].title, issues[y].title) )
           => /\ Cardinality(patched) = 2
              /\ \A n \in fetched : n \notin patched => n = Len(issues)

\* the (duplicate, keeper) pairs that the groups of the fetched corpus stand
\* for: every member of a group but the one created last, with that one
PlannedPairs ==
  LET groups == find_duplicate_groups(Fetched(corpus))
  IN  UNION {{<<n, MostRecent(groups[i])>> :
                n \in Members(groups[i]) \ {MostRecent(groups[i])}} :
               i \in 1..Len(groups)}

ReportedPairs == {<<ret[k].dup, ret[k].keeper>> : k \in 1..Len(ret)}

\* C19: a dry run issues no comment and no state patch and leaves every issue
\* in the state it was fetched with; the pairs it has reported at its end are
\* the pairs of the fetched corpus, and these are the pairs that a live run
\* whose calls all succeed has closed at its end.
Thm_C19 ==
  /\ (pc \in {"sweep", "done"} /\ args.dry_run) =>
       /\ calls = {}
       /\ \A k \in 1..Len(corpus) : issues[corpus[k][1]].state = corpus[k][2]
       /\ \A k \in 1..Len(ret) : ~ret[k].posted /\ ~ret[k].patched
       /\ pc = "done" => ReportedPairs = PlannedPairs
  /\ (pc = "done" /\ ~args.dry_run /\ corpus # << >> /\ faults = 0) =>
       {<<ret[k].dup, ret[k].keeper>> :
          k \in {j \in 1..Len(ret) : ret[j].patched}} = PlannedPairs

\* a dry run over three issues of one group has reported its two pairs
Witness_C19 ==
  /\ pc = "done"
  /\ args.dry_run
  /\ Len(args.groups) = 1
  /\ Cardinality(ReportedPairs) = 2
  /\ \E n \in IssueNumbers : issues[n].state = "open" /\ \E k \in IssueNumbers : <<n, k>> \in ReportedPairs

(***************************************************************************)
(* Runs without GITHUB_REPOSITORY or GITHUB_TOKEN.  ret is the exit status *)
(* of the process.                                                         *)
(***************************************************************************)
NoCredentials(program, rv, status) ==
  /\ pc = "idle"
  /\ pc' = "done"
  /\ review' = rv
  /\ args' = [credentials |-> FALSE, program |-> program]
  /\ ret' = status
  /\ corpus' = << >>
  /\ worklist' = << >>
  /\ idx' = 1
  /\ calls' = {}
  /\ last' = NoLast
  /\ UNCHANGED <<issues, updated, faults, reopenLog, vtrace>>

\* ai_review_to_issues.main: the review is parsed, the issues that would be
\* created are printed, return
ConverterNoCredentials == \E rv \in CReviews : NoCredentials("converter", rv, 0)

\* ai_verify_fixes.main: the review is read, return
VerifierNoCredentials == \E rv \in Reviews : NoCredentials("verifier", rv, 0)

\* cleanup_duplicates.main: sys.exit(1)
SweepNoCredentials == NoCredentials("sweep", NoReview, 1)

NextNoCredentials ==
  ConverterNoCredentials \/ VerifierNoCredentials \/ SweepNoCredentials \/ RunEnd

SpecNoCredentials == Init /\ [][NextNoCredentials]_vars

\* C20: a run of the converter, of the verifier or of the sweep without
\* credentials has made no store call, has fetched nothing, and has ended
\* with exit status 0.
Claim_C20 ==
  (pc = "done" /\ ~args.credentials) =>
    /\ calls = {}
    /\ corpus = << >>
    /\ worklist = << >>
    /\ ret = 0

(***************************************************************************)
(* The three batch loops on one store                                      *)
(***************************************************************************)
InitBatch ==
  \E iss \in {<< >>, <<LegacyIssue(1, 1), LegacyIssue(2, 1), LegacyIssue(3, 1)>>} :
    InitStore(iss)

\* the verifier runs of the batch loops review a.ts
BStart ==
  \E ok \in BOOLEAN :
    VerifierStart({rv \in VReviews : rv.files = {FileA}}, ok, FALSE)

\* the converter runs of the batch loops have reviews of a.ts
BConvert ==
  \E rv \in {r \in CReviews : r.files \subseteq {FileA}},
     open_ok \in BOOLEAN, closed_ok \in BOOLEAN :
    ConverterStart(rv, open_ok, closed_ok, MaxReopens)

NextBatch ==
  BConvert \/ ConverterStep \/ BStart \/ RStep \/ SStart \/ SweepStep \/ RunEnd

SpecBatch == InitBatch /\ [][NextBatch]_vars

\* the records of the batch of the running loop
BatchLength == IF pc = "convert" THEN Len(review.recs) ELSE Len(worklist)

InLoop == pc \in {"convert", "verify", "sweep"}

\* C21: a loop is always at a record of its batch and can process it; the
\* step that processes record i with a failed store call moves on to record
\* i + 1, or ends the run normally if i was the last record.
Thm_C21 ==
  /\ [](InLoop => /\ idx \in 1..BatchLength
                  /\ pc = "convert" => ENABLED ConverterStep
                  /\ pc = "verify" => ENABLED RStep
                  /\ pc = "sweep" => ENABLED SweepStep)
  /\ [][(InLoop /\ faults' > faults) =>
          /\ idx' = idx + 1
          /\ pc' = IF idx < BatchLength THEN pc ELSE "done"]_vars

\* a store call of the first of several records has failed and the loop is at
\* the second record
Witness_C21 ==
  /\ InLoop
  /\ idx = 2
  /\ faults = 1
  /\ BatchLength >= 2

(***************************************************************************)
(* The whole lifecycle on a store with a recurring issue: converter,        *)
(* verifier, sweep and a user who closes issues                            *)
(***************************************************************************)
\* a first-generation issue whose body carries a readable reopen history
CountedIssue(n, i, reopened) ==
  [LegacyIssue(n, i) EXCEPT
     !.body = @ \o <<Ws, Lit("Reopened:"), Ws, Val("num", reopened), Ws,
                     Lit("times")>>]

\* the store holds one closed-and-reopened issue; every store call succeeds
InitLife ==
  InitFrom(<<CountedIssue(1, 1, MetaIssueAt - 1)>>, "idle", << >>, MaxFaults)

\* converter runs with one block on the file of the stored issues; the store
\* has room for the meta-issues of the reopen budget
LConvert ==
  \E rv \in {r \in CReviews : Len(r.recs) = 1 /\ r.files = {FileA}},
     open_ok \in {TRUE}, closed_ok \in BOOLEAN :
    ConverterStartWithin(rv, open_ok, closed_ok, MaxReopens, StoreCap)

\* verifier runs on a review of the file
LVerify == VerifierStart({rv \in VReviews : rv.files = {FileA}}, TRUE, FALSE)

\* live sweeps
LSweep == SweepStart(FALSE, TRUE, TRUE, TRUE)

NextLife ==
  LConvert \/ ConverterStep \/ LVerify \/ RStep \/ LSweep \/ SweepStep
    \/ RunEnd \/ Close

SpecLife == InitLife /\ [][NextLife]_vars

\* what the matching and the verifier read from the body of an issue
Identity(issue) ==
  [fingerprint |-> extract_issue_metadata(issue).fingerprint,
   simple_id   |-> extract_issue_metadata(issue).simple_id,
   category    |-> extract_issue_metadata(issue).category,
   file_path   |-> extract_issue_metadata(issue).file_path]

\* C22: no step of the lifecycle (counter increment and reset, close, reopen,
\* meta-issue creation, duplicate sweep, a user's close) changes the body of an
\* issue that is already in the store, so the fingerprint, the AI-ID, the
\* category and the file read from it stay what they were; issues are never
\* removed from the store.
Thm_C22 ==
  [][/\ Len(issues') >= Len(issues)
     /\ \A n \in IssueNumbers :
          /\ issues'[n].body = issues[n].body
          /\ Identity(issues'[n]) = Identity(issues[n])]_vars

\* the recurring issue has been reopened and has a meta-issue, then was closed
\* again by hand
Witness_C22 ==
  /\ Len(reopenLog[1]) >= 1
  /\ MetaIssuesOf(1) # {}
  /\ issues[1].state = "closed"
  /\ get_reopen_history(issues[1].body) = MetaIssueAt - 1

(***************************************************************************)
(* categorize_issue on the texts of the category test and their mixtures   *)
(***************************************************************************)
CatTitles ==
  {<<"M","i","s","s","i","n","g"," ","c","l","e","a","n","u","p"," ","i","n"," ","u","s","e","E","f","f","e","c","t">>,
   <<"A","s","y","n","c"," ","t","i","m","i","n","g"," ","p","r","o","b","l","e","m">>,
   <<"T","y","p","e"," ","a","n","n","o","t","a","t","i","o","n"," ","m","i","s","s","i","n","g">>,
   <<"S","e","c","u","r","i","t","y"," ","v","u","l","n","e","r","a","b","i","l","i","t","y">>,
   <<"I","n","p","u","t"," ","v","a","l","i","d","a","t","i","o","n">>,
   <<"R","e","n","a","m","e"," ","v","a","r","i","a","b","l","e">>}

CatProblems ==
  {<<"E","v","e","n","t"," ","l","i","s","t","e","n","e","r"," ","n","o","t"," ","r","e","m","o","v","e","d">>,
   <<"R","a","c","e"," ","c","o","n","d","i","t","i","o","n"," ","i","n"," ","d","a","t","a"," ","f","e","t","c","h">>,
   <<"I","m","p","l","i","c","i","t"," ","a","n","y"," ","t","y","p","e">>,
   <<"X","S","S"," ","r","i","s","k">>,
   <<>>}

CatCodes ==
  {<<"a","d","d","E","v","e","n","t","L","i","s","t","e","n","e","r">>,
   <<"a","w","a","i","t"," ","f","e","t","c","h">>,
   <<"i","n","n","e","r","H","T","M","L">>,
   <<>>}

InitCat ==
  \E issue_title \in CatTitles, problem_description \in CatProblems,
     code \in CatCodes :
    InitWith(<< >>, "categorize",
             [title |-> issue_title, problem |-> problem_description,
              code |-> code])

\* category = categorize_issue(issue_title, problem, current_code)
Categorize ==
  /\ pc = "categorize"
  /\ ret' = categorize_issue(args.title, args.problem, args.code)
  /\ pc' = "categorized"
  /\ UNCHANGED <<issues, updated, review, corpus, worklist, idx, faults, calls,
                 last, reopenLog, vtrace, args>>

NextCat == Categorize

SpecCat == InitCat /\ [][NextCat]_vars

\* the keywords of category number i that occur in the lowercased
\* concatenation of the three texts
Occurring(i) ==
  LET text == Lower(args.title \o <<" ">> \o args.problem \o <<" ">> \o args.code)
      kws  == CategoryKeywords[CategoryOrder[i]]
  IN  {k \in 1..Len(kws) : Contains(text, kws[k])}

CategoryNumbers == 1..Len(CategoryOrder)

\* C23: categorize_issue returns the category with the most keywords occurring
\* in the lowercased "title problem code", the first-defined one among the
\* categories tied for the maximum, and general exactly when no keyword of any
\* category occurs.
Thm_C23 ==
  pc = "categorized" =>
    /\ ret = "general" <=> \A i \in CategoryNumbers : Occurring(i) = {}
    /\ \A i \in CategoryNumbers :
         ret = CategoryOrder[i] =>
           /\ Occurring(i) # {}
           /\ \A j \in CategoryNumbers :
                /\ Cardinality(Occurring(j)) <= Cardinality(Occurring(i))
                /\ j < i => Cardinality(Occurring(j)) < Cardinality(Occurring(i))
    /\ ret \in {"general"} \cup {CategoryOrder[i] : i \in CategoryNumbers}

\* two categories are tied for the maximum and the first-defined one is returned
Witness_C23 ==
  /\ pc = "categorized"
  /\ \E i, j \in CategoryNumbers :
       /\ i < j
       /\ ret = CategoryOrder[i]
       /\ Cardinality(Occurring(i)) = Cardinality(Occurring(j))

(***************************************************************************)
(* generate_issue_fingerprint on blocks whose code invokes many hooks or   *)
(* many platform APIs                                                      *)
(***************************************************************************)
\* five platform APIs that sort before setTimeout and window, then one more
CodeApisTimeout ==
  <<"a","d","d","E","v","e","n","t","L","i","s","t","e","n","e","r","(","f",
    ")"," ","c","l","e","a","r","I","n","t","e","r","v","a","l","(","a",")",
    " ","c","l","e","a","r","T","i","m","e","o","u","t","(","b",")"," ","r",
    "e","m","o","v","e","E","v","e","n","t","L","i","s","t","e","n","e","r",
    "(","f",")"," ","s","e","t","I","n","t","e","r","v","a","l","(","g",")",
    " ","s","e","t","T","i","m","e","o","u","t","(","h",")">>

CodeApisWindow ==
  <<"a","d","d","E","v","e","n","t","L","i","s","t","e","n","e","r","(","f",
    ")"," ","c","l","e","a","r","I","n","t","e","r","v","a","l","(","a",")",
    " ","c","l","e","a","r","T","i","m","e","o","u","t","(","b",")"," ","r",
    "e","m","o","v","e","E","v","e","n","t","L","i","s","t","e","n","e","r",
    "(","f",")"," ","s","e","t","I","n","t","e","r","v","a","l","(","g",")",
    " ","w","i","n","d","o","w",".","o","p","e","n","(","u",")">>

\* ten hooks, then an eleventh
CodeHooksK ==
  <<"u","s","e","a","(","x",")"," ","u","s","e","b","(","x",")"," ","u","s",
    "e","c","(","x",")"," ","u","s","e","d","(","x",")"," ","u","s","e","e",
    "(","x",")"," ","u","s","e","f","(","x",")"," ","u","s","e","g","(","x",
    ")"," ","u","s","e","h","(","x",")"," ","u","s","e","i","(","x",")"," ",
    "u","s","e","j","(","x",")"," ","u","s","e","k","(","x",")">>

CodeHooksL ==
  <<"u","s","e","a","(","x",")"," ","u","s","e","b","(","x",")"," ","u","s",
    "e","c","(","x",")"," ","u","s","e","d","(","x",")"," ","u","s","e","e",
    "(","x",")"," ","u","s","e","f","(","x",")"," ","u","s","e","g","(","x",
    ")"," ","u","s","e","h","(","x",")"," ","u","s","e","i","(","x",")"," ",
    "u","s","e","j","(","x",")"," ","u","s","e","l","(","x",")">>

SensBlocks ==
  {Block(FileA, title, code) :
     title \in {TitleLeak, TitleOdd},
     code \in {CodeHook, CodeTimer, CodeApisTimeout, CodeApisWindow,
               CodeHooksK, CodeHooksL}}

InitSens ==
  \E a \in SensBlocks, b \in SensBlocks : InitWith(<< >>, "fingerprint", <<a, b>>)

SpecSens == InitSens /\ [][NextFp]_vars

\* the framework hooks and the named platform APIs that the code invokes
Invoked(current_code) ==
  LET pattern == NormalizeCode(current_code)
  IN  Range(FindCalls(pattern, 1, UsePrefix))
        \cup Range(FindAlts(pattern, 1, CriticalApis))

\* C24: two blocks with the same file, title and category whose code differs
\* in the hooks or platform APIs it invokes have different fingerprints,
\* wherever the differing token stands in the signature.
Claim_C24 ==
  pc = "fingerprinted" =>
    ((/\ args[1].file_path = args[2].file_path
      /\ args[1].title = args[2].title
      /\ ret[1].category = ret[2].category
      /\ Invoked(args[1].current_code) # Invoked(args[2].current_code))
       => ret[1].fingerprint # ret[2].fingerprint)

(***************************************************************************)
(* parse_ai_review on review documents                                     *)
(***************************************************************************)
\* A review document is a sequence of lexemes [k |-> kind, v |-> text]:
\*   "file"    the section mark "## File:"
\*   "tick"    a backtick-quoted text, `v`
\*   "crit"    a critical title mark, **<red> CRITICAL: v**
\*   "sev"     the start of another severity mark, **<yellow> or **<blue>
\*             (v is "perf" or "enh")
\*   "problem" **Problem:** v            "why"  **Why:** v
\*   "code"    **Current Code:** ```\n v ```
\*   "fix"     **Suggested Fix:** ```\n v ```
Lexeme(kind, text) == [k |-> kind, v |-> text]

FieldKinds == {"problem", "code", "fix", "why"}

\* 'See AI review for details'
ProblemPlaceholder ==
  <<"S","e","e"," ","A","I"," ","r","e","v","i","e","w"," ","f","o","r"," ",
    "d","e","t","a","i","l","s">>

\* review_text.split('## File:')
RECURSIVE SplitSections(_)
SplitSections(review_text) ==
  Let(MinPos({i \in 1..Len(review_text) : review_text[i].k = "file"}), LAMBDA i :
    IF i = 0 THEN <<review_text>>
    ELSE <<SubSeq(review_text, 1, i - 1)>>
           \o SplitSections(SubSeq(review_text, i + 1, Len(review_text))))

\* re.search(r'`([^`]+)`', section): the first backtick-quoted text; the
\* fences of a code block are backticks too, and the text between the last
\* opening backtick and the first closing one is a newline and the code
QuotedText(section) ==
  Let(MinPos({i \in 1..Len(section) : section[i].k \in {"tick", "code", "fix"}}),
      LAMBDA i :
    IF i = 0 THEN None
    ELSE IF section[i].k = "tick" THEN section[i].v
    ELSE <<"\n">> \o section[i].v)

\* an issue block that runs to the end of its section
BlockEnd_section_end(section, start_pos) == Len(section) + 1

\* end_pos = min([p for p in [next_issue, next_perf, next_enhance, next_file]
\*                if p > start_pos])
BlockEnd(section, start_pos) ==
  MinPos({p \in (start_pos + 1)..Len(section) : section[p].k \in {"crit", "sev"}}
           \cup {Len(section) + 1})

\* a parser that gives up on every field of a block when one is missing
FieldOf_all_or_nothing(issue_block, kind, placeholder) ==
  Let(MinPos({i \in 1..Len(issue_block) : issue_block[i].k = kind}), LAMBDA i :
    IF \E f \in FieldKinds : \A j \in 1..Len(issue_block) : issue_block[j].k # f
    THEN placeholder ELSE issue_block[i].v)

\* x_match = re.search(..., issue_block);
\* x = x_match.group(1).strip() if x_match else placeholder
FieldOf(issue_block, kind, placeholder) ==
  Let(MinPos({i \in 1..Len(issue_block) : issue_block[i].k = kind}), LAMBDA i :
    IF i = 0 THEN placeholder ELSE issue_block[i].v)

\* bound: section marks and issue blocks of a review document
MaxItems == 3

NumberChar(k) == <<"1","2","3","4","5","6","7","8","9">>[k]

\* the texts of the block that stands at place k of a document
TitleAt(k) == <<"L","e","a","k"," ",NumberChar(k)>>

FieldAt(kind, k) ==
  CASE kind = "problem" -> <<"p", NumberChar(k)>>
    [] kind = "code"    -> <<"f", NumberChar(k), "(", ")">>
    [] kind = "fix"     -> <<"g", NumberChar(k), "(", ")">>
    [] kind = "why"     -> <<"w", NumberChar(k)>>

\* the fingerprint data of the texts documents are made of, computed once:
\* the quoted text of the section (the path, or the code between two fences),
\* the title, the problem (or its placeholder) and the code (or none) of a block
DocFingerprints ==
  [t \in UNION {{<<file_path, TitleAt(k), problem, current_code>> :
                   file_path \in {FileA} \cup {<<"\n">> \o FieldAt(kind, j) :
                                                 kind \in {"code", "fix"},
                                                 j \in 1..MaxItems},
                   problem \in {FieldAt("problem", k), ProblemPlaceholder},
                   current_code \in {FieldAt("code", k), << >>}} :
                 k \in 1..MaxItems} |->
     generate_issue_fingerprint(t[1], t[2], t[3], t[4], << >>)]

\* the body of "for match in re.finditer(critical_pattern, section, ...)"
ParsedIssue(section, start_pos, file_path) ==
  Let(section[start_pos].v, LAMBDA issue_title :
  Let(SubSeq(section, start_pos, BlockEnd(section, start_pos) - 1),
      LAMBDA issue_block :
  Let(FieldOf(issue_block, "problem", ProblemPlaceholder), LAMBDA problem :
  Let(FieldOf(issue_block, "code", << >>), LAMBDA current_code :
  Let(FieldOf(issue_block, "fix", << >>), LAMBDA suggested_fix :
  Let(FieldOf(issue_block, "why", << >>), LAMBDA reasoning :
  Let(IF <<file_path, issue_title, problem, current_code>> \in DOMAIN DocFingerprints
      THEN DocFingerprints[<<file_path, issue_title, problem, current_code>>]
      ELSE generate_issue_fingerprint(file_path, issue_title, problem,
                                      current_code, suggested_fix),
      LAMBDA fingerprint_data :
    [title            |-> AITitle(issue_title),
     file_path        |-> file_path,
     problem          |-> problem,
     current_code     |-> current_code,
     suggested_fix    |-> suggested_fix,
     reasoning        |-> reasoning,
     labels           |-> BaseLabels \cup {PlainLabel(fingerprint_data.category)}
                          \cup PathLabels(file_path),
     fingerprint_data |-> fingerprint_data])))))))

\* the j-th element of a set of positions, in ascending order
Nth(S, j) == CHOOSE x \in S : Cardinality({y \in S : y < x}) = j - 1

\* the body of "for section in sections[1:]"
SectionIssues(section) ==
  Let(QuotedText(section), LAMBDA file_path :
    IF file_path = None THEN << >>
    ELSE Let({i \in 1..Len(section) : section[i].k = "crit"}, LAMBDA matches :
           << >> \o [j \in 1..Cardinality(matches) |->
                      ParsedIssue(section, Nth(matches, j), file_path)]))

RECURSIVE SectionsIssues(_, _)
SectionsIssues(sections, s) ==
  IF s > Len(sections) THEN << >>
  ELSE Let(SectionIssues(sections[s]), LAMBDA found :
         found \o SectionsIssues(sections, s + 1))

parse_ai_review(review_text) ==
  Let(SplitSections(review_text), LAMBDA sections : SectionsIssues(sections, 2))

\* the items documents are made of: section marks with and without a quoted
\* path, critical blocks with all fields, with one field missing and with
\* none, and blocks of the two other severities
DocItems ==
  {[mark |-> "file", fields |-> {}, tick |-> t] : t \in BOOLEAN}
    \cup {[mark |-> "crit", fields |-> fs, tick |-> FALSE] :
            fs \in {FieldKinds \ {f} : f \in FieldKinds} \cup {FieldKinds, {}}}
    \cup {[mark |-> "perf", fields |-> FieldKinds, tick |-> FALSE],
          [mark |-> "enh", fields |-> {}, tick |-> FALSE]}

FieldsInOrder(fields, k) ==
  (IF "problem" \in fields THEN <<Lexeme("problem", FieldAt("problem", k))>> ELSE << >>)
  \o (IF "code" \in fields THEN <<Lexeme("code", FieldAt("code", k))>> ELSE << >>)
  \o (IF "fix" \in fields THEN <<Lexeme("fix", FieldAt("fix", k))>> ELSE << >>)
  \o (IF "why" \in fields THEN <<Lexeme("why", FieldAt("why", k))>> ELSE << >>)

\* the lexemes of item it standing at place k
ItemText(it, k) ==
  IF it.mark = "file"
  THEN <<Lexeme("file", << >>)>>
         \o (IF it.tick THEN <<Lexeme("tick", FileA)>> ELSE << >>)
  ELSE <<IF it.mark = "crit" THEN Lexeme("crit", TitleAt(k))
         ELSE Lexeme("sev", it.mark)>>
         \o FieldsInOrder(it.fields, k)

RECURSIVE DocText(_, _)
DocText(items, k) ==
  IF k > Len(items) THEN << >>
  ELSE ItemText(items[k], k) \o DocText(items, k + 1)

InitParse ==
  \E n \in 0..MaxItems : \E items \in [1..n -> DocItems] :
    InitWith(<< >>, "parse", DocText(items, 1))

\* new_issues = parse_ai_review(review_text)
Parse ==
  /\ pc = "parse"
  /\ ret' = parse_ai_review(args)
  /\ pc' = "parsed"
  /\ UNCHANGED <<issues, updated, review, corpus, worklist, idx, faults, calls,
                 last, reopenLog, vtrace, args>>

NextParse == Parse

SpecParse == InitParse /\ [][NextParse]_vars

\* the positions of the document, by what stands there
MarksOf(kinds) == {i \in 1..Len(args) : args[i].k \in kinds}

\* the section of position i: from its section mark (0 when i stands before
\* the first one) to the next section mark or the end of the document
SectionStart(i) ==
  LET before == {h \in MarksOf({"file"}) : h < i}
  IN  IF before = {} THEN 0 ELSE CHOOSE h \in before : \A g \in before : g <= h

SectionEnd(i) ==
  LET after == {h \in MarksOf({"file"}) : h > i} \cup {Len(args) + 1}
  IN  CHOOSE h \in after : \A g \in after : h <= g

\* the critical title marks that stand in a section with a backtick-quoted text
Recorded ==
  {i \in MarksOf({"crit"}) :
     /\ SectionStart(i) > 0
     /\ \E q \in MarksOf({"tick", "code", "fix"}) :
          SectionStart(i) < q /\ q < SectionEnd(i)}

\* the span of the mark at i: up to the next mark of any severity or the end
\* of the section
Span(i) ==
  LET stops == {q \in MarksOf({"crit", "sev"}) : q > i} \cup {SectionEnd(i)}
  IN  i..((CHOOSE q \in stops : \A r \in stops : q <= r) - 1)

\* value x of a record field comes from a lexeme of that kind inside the span
FromSpan(x, kind, i) == \E q \in Span(i) : args[q] = Lexeme(kind, x)

\* C25: parse_ai_review yields one record per critical title mark of the
\* sections that have a backtick-quoted text, in document order, and every
\* field of a record is its placeholder or comes from the span between the
\* record's own mark and the next mark of any severity (or the section end).
Thm_C25 ==
  pc = "parsed" =>
    /\ Len(ret) = Cardinality(Recorded)
    /\ \A j \in 1..Len(ret) :
         LET i == Nth(Recorded, j)
         IN  /\ ret[j].title = AITitle(args[i].v)
             /\ ret[j].problem = ProblemPlaceholder
                  \/ FromSpan(ret[j].problem, "problem", i)
             /\ ret[j].current_code = << >>
                  \/ FromSpan(ret[j].current_code, "code", i)
             /\ ret[j].suggested_fix = << >>
                  \/ FromSpan(ret[j].suggested_fix, "fix", i)
             /\ ret[j].reasoning = << >> \/ FromSpan(ret[j].reasoning, "why", i)

\* the first of two critical blocks of a section lacks the problem line that
\* the second one has: the first record carries the placeholder
Witness_C25 ==
  /\ pc = "parsed"
  /\ Len(ret) = 2
  /\ ret[1].problem = ProblemPlaceholder
  /\ ret[2].problem = FieldAt("problem", 3)
  /\ ret[1].current_code = FieldAt("code", 2)

\* the field kinds that have no lexeme in the span of the mark at i
MissingIn(i) == {f \in FieldKinds : \A q \in Span(i) : args[q].k # f}

\* the name of the record field that a lexeme kind fills
FieldOfRecord(r, kind) ==
  CASE kind = "problem" -> r.problem
    [] kind = "code"    -> r.current_code
    [] kind = "fix"     -> r.suggested_fix
    [] kind = "why"     -> r.reasoning

PlaceholderOf(kind) == IF kind = "problem" THEN ProblemPlaceholder ELSE << >>

\* the order in which a block writes its fields
FieldRank(kind) ==
  CASE kind = "problem" -> 1 [] kind = "code" -> 2 [] kind = "fix" -> 3
    [] kind = "why" -> 4 [] OTHER -> 0

\* the document with field f written into the block of the mark at i, at its
\* place among the fields of the block
Completed(i, f) ==
  LET k == CHOOSE n \in 1..MaxItems : args[i].v = TitleAt(n)
      earlier == {q \in Span(i) : FieldRank(args[q].k) < FieldRank(f)}
      at == CHOOSE q \in earlier : \A r \in earlier : r <= q
  IN  SubSeq(args, 1, at) \o <<Lexeme(f, FieldAt(f, k))>>
        \o SubSeq(args, at + 1, Len(args))

\* the section of the mark at i begins with its backtick-quoted path
LeadingPath(i) ==
  /\ SectionStart(i) > 0
  /\ args[SectionStart(i) + 1].k = "tick"

\* record j, whose block lacks field f, carries the placeholder there and the
\* other fields as written; the other records of the document are what they
\* are when the field is present
Degrades(j, f) ==
  LET full == parse_ai_review(Completed(Nth(Recorded, j), f))
  IN  /\ FieldOfRecord(ret[j], f) = PlaceholderOf(f)
      /\ Len(full) = Len(ret)
      /\ \A m \in 1..Len(ret) : m # j => full[m] = ret[m]
      /\ FieldOfRecord(full[j], f) # PlaceholderOf(f)
      /\ \A g \in FieldKinds \ {f} :
           FieldOfRecord(full[j], g) = FieldOfRecord(ret[j], g)
      /\ full[j].title = ret[j].title
      /\ full[j].file_path = ret[j].file_path

Thm_C27 ==
  [][(/\ pc = "convert"
      /\ last'.op \in {"reopen", "reopen_failed"}
      /\ "patch" \in last'.failed)
       => /\ last'.op = "reopen_failed"
          /\ issues' = issues
          /\ updated' = updated
          /\ reopenLog' = reopenLog
          /\ calls' = {<<last'.number, "patch">>}]_vars

\* the PATCH has failed on a closed issue that carries a counter label
Witness_C27 ==
  /\ last.op = "reopen_failed"
  /\ last.failed = {"patch"}
  /\ issues[last.number].state = "closed"
  /\ NotSeenCounts(issues[last.number].labels) # {}

(***************************************************************************)
(* Both stages on one review, in both orders, from the same store          *)
(***************************************************************************)
\* args is the plan [store, rv, order, stage]: the store and the review both
\* orders start from, the order being run ("cv": converter, then verifier;
\* "vc": verifier, then converter) and the number of stages it has finished;
\* ret keeps the outcome of order "cv" while order "vc" runs

\* a first-generation issue in a given state with a given confirmation counter
StoredLegacy(i, state, count) ==
  [LegacyIssue(1, i) EXCEPT
     !.state = state,
     !.labels = @ \cup (IF count = 0 THEN {} ELSE {NotSeenLabel(count)})]

OrderStores ==
  {<<StoredLegacy(i, state, count)>> :
     i \in 1..Len(Catalog), state \in {"open", "closed"}, count \in 0..2}

\* reviews with one critical block and, possibly, sections without one
OrderReviews == {rv \in Reviews : Len(rv.recs) = 1}

\* every store call of these runs succeeds
InitOrder ==
  \E store \in OrderStores, rv \in OrderReviews :
    InitFrom(store, "idle",
             [store |-> store, rv |-> rv, order |-> "cv", stage |-> 0],
             MaxFaults)

\* the program that the plan runs next
Program ==
  IF args.stage >= 2 THEN "none"
  ELSE IF (args.order = "cv") = (args.stage = 0) THEN "converter"
  ELSE "verifier"

OConvert ==
  /\ Program = "converter"
  /\ ConverterStartWithin(args.rv, TRUE, TRUE, MaxReopens, StoreCap)

OVerify ==
  /\ Program = "verifier"
  /\ get_open_ai_issues # << >>
  /\ VerifierStart({args.rv}, TRUE, FALSE)

\* a verifier run that finds no open issue does nothing
OSkip ==
  /\ Program = "verifier"
  /\ pc = "idle"
  /\ get_open_ai_issues = << >>
  /\ args' = [args EXCEPT !.stage = @ + 1]
  /\ UNCHANGED <<issues, updated, pc, review, corpus, worklist, idx, faults,
                 calls, last, reopenLog, vtrace, ret>>

\* the end of a run, counted as a stage of the plan
OEnd ==
  /\ pc = "done"
  /\ pc' = "idle"
  /\ review' = NoReview
  /\ corpus' = << >>
  /\ worklist' = << >>
  /\ idx' = 1
  /\ calls' = {}
  /\ last' = NoLast
  /\ args' = [args EXCEPT !.stage = @ + 1]
  /\ UNCHANGED <<issues, updated, faults, reopenLog, vtrace, ret>>

\* state, confirmation counter and reopen count of every issue of the store
Outcome ==
  [n \in IssueNumbers |->
     [state   |-> issues[n].state,
      counter |-> get_not_seen_count(issues[n].labels),
      reopens |-> Len(reopenLog[n])]]

\* order "cv" is finished: its outcome is kept and the store is taken back to
\* where it was, for order "vc"
ORewind ==
  /\ pc = "idle"
  /\ args.order = "cv" /\ args.stage = 2
  /\ ret' = Outcome
  /\ issues' = args.store
  /\ updated' = Descending(1..Len(args.store))
  /\ reopenLog' = [n \in 1..StoreCap |-> << >>]
  /\ vtrace' = [n \in 1..StoreCap |-> << >>]
  /\ args' = [args EXCEPT !.order = "vc", !.stage = 0]
  /\ UNCHANGED <<pc, review, corpus, worklist, idx, faults, calls, last>>

NextOrder ==
  OConvert \/ ConverterStep \/ OVerify \/ OSkip \/ RStep \/ OEnd \/ ORewind

SpecOrder == InitOrder /\ [][NextOrder]_vars

\* C28: converter then verifier, and verifier then converter, on the same
\* store and review end with the same state, confirmation counter and reopen
\* count for every issue.
Claim_C28 ==
  (args.order = "vc" /\ args.stage = 2) => Outcome = ret

InitTwice ==
  InitFrom(<<[LegacyIssue(1, 3) EXCEPT !.state = "closed"]>>, "idle", << >>,
           MaxFaults)

\* reviews of the file of the stored issue, with and without line suffix
TConvert ==
  \E rv \in {r \in CReviews : r.files \subseteq {FileB, FileBLine}},
     closed_ok \in BOOLEAN :
    ConverterStartWithin(rv, TRUE, closed_ok, MaxCycles, StoreCap)

NextTwice == TConvert \/ ConverterStep \/ RunEnd \/ Close

SpecTwice == InitTwice /\ [][NextTwice]_vars

\* C29: within one converter run an issue is reopened at most once: a record
\* that matches the issue which the record before it has reopened is handled
\* as a detection of an open issue.
Claim_C29 ==
  [][(/\ pc = "convert"
      /\ last.op = "reopen"
      /\ last'.number = last.number)
       => last'.op = "update"]_vars

(***************************************************************************)
(* Live sweeps, one after the other, on stores whose titles form a chain:  *)
(* 'Old name' and 'Old fate' are each similar to 'Old fame' and not to     *)
(* each other.  Every store call succeeds.                                 *)
(***************************************************************************)
\* bound: issues in the store of the repeated sweep
MaxGroupIssues == 4

GroupEntries ==
  {<<t, FileA, "open">> : t \in {TitleOldName, TitleOldFame, TitleOldFate, TitleOdd}}
  \cup {<<TitleOldFate, FileA, "closed">>, <<TitleOldFame, FileB, "open">>}

InitGroups ==
  \E n \in 0..MaxGroupIssues : \E s \in [1..n -> GroupEntries] :
    InitFrom(<< >> \o [k \in 1..Len(s) |-> SweepIssue(k, s[k])], "idle", << >>,
             MaxFaults)

\* "python cleanup_duplicates.py", answered with yes
GSweep == SweepStart(FALSE, TRUE, TRUE, TRUE)

NextGroups == GSweep \/ SweepStep \/ RunEnd

SpecGroups == InitGroups /\ [][NextGroups]_vars

\* issue x is a duplicate of issue y as the sweep defines it
DuplicateOf(x, y) ==
  /\ extract_file_path(issues[x].body) = extract_file_path(issues[y].body)
  /\ cleanup_titles_are_similar(issues[x].title, issues[y].title)

\* C31: every issue that the sweep fetched open and has closed has the file
\* path of the keeper it was closed in favour of and a normalized title of
\* similarity >= 0.85 with the keeper's.
Claim_C31 ==
  \A k \in 1..Len(ret) :
    (pc \in {"sweep", "done"} /\ ret[k].patched /\ FetchedState(ret[k].dup) = "open")
      => DuplicateOf(ret[k].dup, ret[k].keeper)

\* the issue numbers of the groups, one list
RECURSIVE Flat(_)
Flat(groups) ==
  IF groups = << >> THEN << >> ELSE groups[1] \o Flat(Tail(groups))

\* C32: in every sweep no issue number occurs twice in the groups that
\* find_duplicate_groups returned, no issue is the keeper of one group and a
\* duplicate of another, and no issue is the subject of two close_duplicate
\* calls.
Thm_C32 ==
  pc \in {"sweep", "done"} =>
    /\ \A i \in 1..Len(args.groups), j \in 1..Len(args.groups) :
         i # j => Members(args.groups[i]) \cap Members(args.groups[j]) = {}
    /\ LET all == Flat(args.groups)
       IN  \A a \in 1..Len(all), b \in 1..Len(all) : all[a] = all[b] => a = b
    /\ \A a \in 1..Len(worklist), b \in 1..Len(worklist) :
         /\ worklist[a].dup # worklist[b].keeper
         /\ worklist[a].dup = worklist[b].dup => a = b

\* a finished sweep in which the set processed kept an issue out of a second
\* group: issue x is in no group and was listed before a duplicate m of it
\* that is a member of a group
Witness_C32 ==
  /\ pc = "done"
  /\ Len(ret) = 2
  /\ \E a \in 1..Len(corpus), b \in 1..Len(corpus), i \in 1..Len(args.groups) :
       /\ a < b
       /\ \A j \in 1..Len(args.groups) : corpus[a][1] \notin Members(args.groups[j])
       /\ corpus[b][1] \in Members(args.groups[i])
       /\ DuplicateOf(corpus[a][1], corpus[b][1])

\* C33: a live sweep that starts after a live sweep whose comments and
\* patches all succeeded finds nothing to close: it plans no close_duplicate
\* call, so it posts no comment and patches no issue.
Claim_C33 ==
  [][(/\ pc = "idle" /\ pc' \in {"sweep", "done"}
      /\ args # << >>
      /\ \A k \in 1..Len(ret) : ret[k].posted /\ ret[k].patched)
     => worklist' = << >>]_vars

(***************************************************************************)
(* The two titles_are_similar functions on pairs of titles: decorated,     *)
(* upper-case and punctuated spellings of one title, titles one and two    *)
(* edits apart, and titles that normalize to the empty string              *)
(***************************************************************************)
TitleShout == <<"O","L","D"," "," ","N","A","M","E">>

TitleBang == <<"O","l","d"," ","n","a","m","e","!">>

TitleMarks == <<"?","!">>

SimilarityTitles ==
  {TitleOldName, AITitle(TitleOldName), TitleShout, TitleBang, TitleOldFame,
   TitleOldFate, TitleOdd, TitleLeak, TitleMarks, AITitle(<< >>), << >>}

\* the threshold argument: the default, 1.0 or 0.5
InitSimilar ==
  \E t1 \in SimilarityTitles, t2 \in SimilarityTitles,
     th \in {StrictThreshold, 100, 50} :
    InitWith(<< >>, "compare", [title1 |-> t1, title2 |-> t2, threshold |-> th])

\* the converter's titles_are_similar in both contexts and the sweep's
Compare ==
  /\ pc = "compare"
  /\ pc' = "compared"
  /\ ret' = [strict  |-> titles_are_similar(args.title1, args.title2,
                                            args.threshold, FALSE),
             lenient |-> titles_are_similar(args.title1, args.title2,
                                            args.threshold, TRUE),
             sweep   |-> cleanup_titles_are_similar(args.title1, args.title2)]
  /\ UNCHANGED <<issues, updated, review, corpus, worklist, idx, faults, calls,
                 last, reopenLog, vtrace, args>>

NextSimilar == Compare

SpecSimilar == InitSimilar /\ [][NextSimilar]_vars

\* C34: for every pair of titles the sweep's titles_are_similar returns what
\* the converter's returns with the default threshold and same_context=False.
Claim_C34 ==
  (pc = "compared" /\ args.threshold = StrictThreshold) => ret.sweep = ret.strict

\* SequenceMatcher(None, a, b).ratio() >= pct/100 for the normalized titles
\* of the pair
NormalizedRatioAtLeast(pct) ==
  LET a == normalize_title(args.title1)
      b == normalize_title(args.title2)
      M == MatchingSize(a, b, 1, Len(a), 1, Len(b))
  IN  IF Len(a) + Len(b) = 0 THEN TRUE ELSE 200 * M >= pct * (Len(a) + Len(b))

SomeEmpty ==
  normalize_title(args.title1) = << >> \/ normalize_title(args.title2) = << >>

EqualNormalized == normalize_title(args.title1) = normalize_title(args.title2)

\* the parts of C38 that do not depend on the empty title
ThresholdsOf ==
  /\ ~SomeEmpty =>
       /\ ret.lenient = NormalizedRatioAtLeast(LenientThreshold)
       /\ ret.strict = NormalizedRatioAtLeast(args.threshold)
  /\ (args.threshold = StrictThreshold /\ ret.strict) => ret.lenient
  /\ SomeEmpty => ~ret.strict /\ ~ret.lenient

MaxFrame == 2

\* issue number n for block 1 of the catalog: open, closed, or open with a
\* body that carries the AI-ID alone; count is its confirmation label
FrameIssue(n, kind, count) ==
  [LegacyIssue(n, 1) EXCEPT
     !.state  = IF kind = "closed" THEN "closed" ELSE "open",
     !.body   = IF kind = "pathless"
                THEN <<Lit("AI-ID:"), Ws, Val("hex", WordAfter(@, "AI-ID:"))>>
                ELSE @,
     !.labels = IF count = 0 THEN @ ELSE @ \cup {NotSeenLabel(count)}]

InitFrame ==
  \E n \in 0..MaxFrame :
    \E s \in [1..n -> {"open", "closed", "pathless"} \X {0, 2}] :
      InitStore(<< >> \o [k \in 1..Len(s) |-> FrameIssue(k, s[k][1], s[k][2])])

FStart == \E ok \in BOOLEAN : VerifierStart(VReviews, ok, FALSE)

FStep == VerifierStep(FALSE)

NextFrame == FStart \/ FStep \/ RunEnd

SpecFrame == InitFrame /\ [][NextFrame]_vars

\* C35: a step of a verifier run leaves every issue that is closed and every
\* issue whose body has no extractable file path as it is, labels and state,
\* and issues no call on it.
Thm_C35 ==
  [][pc = "verify" =>
       \A n \in IssueNumbers :
         (issues[n].state = "closed" \/ ExtractFile(issues[n].body) = << >>)
           => /\ issues'[n] = issues[n]
              /\ \A c \in calls' : c[1] # n]_vars

\* the verifier has gone past an open issue without a file path that carries
\* a confirmation label, in a store with a closed issue of a reviewed file
Witness_C35 ==
  /\ pc \in {"verify", "done"}
  /\ idx > 1
  /\ worklist[idx - 1].file_path = << >>
  /\ NotSeenLabel(2) \in worklist[idx - 1].labels
  /\ \E n \in IssueNumbers :
       /\ issues[n].state = "closed"
       /\ ExtractFile(issues[n].body) \in review.files
       /\ NotSeenLabel(2) \in issues[n].labels

(***************************************************************************)
(* The results that the three main functions count, on a store with a      *)
(* closed issue and an open duplicate of it that is one confirmation from  *)
(* being closed; store calls may fail                                      *)
(***************************************************************************)
InitCounts ==
  InitStore(<<FrameIssue(1, "closed", 0), FrameIssue(2, "open", 2)>>)

\* verifier runs on reviews of the file
KStart ==
  \E ok \in BOOLEAN :
    VerifierStart({rv \in VReviews : rv.files = {FileA}}, ok, FALSE)

KStep == VerifierStep(FALSE)

\* converter runs with one block of the file; the store has room for one more
\* issue
KConvert ==
  \E rv \in {r \in CReviews : Len(r.recs) = 1 /\ r.files = {FileA}},
     open_ok \in BOOLEAN, closed_ok \in BOOLEAN :
    ConverterStartWithin(rv, open_ok, closed_ok, MaxReopens, StoreCap)

NextCounts ==
  KConvert \/ ConverterStep \/ KStart \/ KStep \/ LSweep \/ SweepStep \/ RunEnd

SpecCounts == InitCounts /\ [][NextCounts]_vars

\* the step is a verify_with_confirmation on issue n that called
\* close_fixed_issue, whose PATCH is among the calls of the step, and
\* returned "closed": main adds one to closed_count
CountedClosed(n) == pc = "verify" /\ <<n, "patch">> \in calls'

\* the step is the else branch of "if existing['state'] == 'open'": main adds
\* one to reopened_count
CountedReopened == pc = "convert" /\ last'.op \in {"reopen", "reopen_failed"}

\* the step is a close_duplicate that returned True: main adds one to
\* closed_count
CountedDuplicate ==
  /\ pc = "sweep" /\ ~args.dry_run
  /\ Len(ret') > Len(ret)
  /\ ret'[Len(ret')].result

\* C36: the verifier counts an issue as closed only if it is closed in the
\* store, the converter counts a reopen only if the reopen succeeded, and
\* the live sweep counts a duplicate as closed only if it has closed it, also
\* when store calls fail.
Claim_C36 ==
  [][/\ \A n \in IssueNumbers : CountedClosed(n) => issues'[n].state = "closed"
     /\ CountedReopened => /\ last'.op = "reopen"
                           /\ issues'[last'.number].state = "open"
     /\ CountedDuplicate => /\ ret'[Len(ret')].patched
                            /\ issues'[ret'[Len(ret')].dup].state = "closed"]_vars

\* the three parts of C36, each alone
VerifierCountIsRight ==
  [][\A n \in IssueNumbers : CountedClosed(n) => issues'[n].state = "closed"]_vars

ConverterCountIsRight ==
  [][CountedReopened => last'.op = "reopen"]_vars

SweepCountIsRight ==
  [][CountedDuplicate => ret'[Len(ret')].patched]_vars

(***************************************************************************)
(* extract_problem_pattern on code put together from parts that fill or    *)
(* overfill each tier, with and without a suggested fix                    *)
(***************************************************************************)
\* the code of TEST 1: a useEffect hook whose body calls window.addEventListener
\* and returns no cleanup
CodeListener ==
  <<"u","s","e","E","f","f","e","c","t","(","(",")"," ","=",">"," ","{","\n",
    " "," "," "," ","w","i","n","d","o","w",".","a","d","d","E","v","e","n",
    "t","L","i","s","t","e","n","e","r","(","'","s","t","o","r","a","g","e",
    "'",","," ","h","a","n","d","l","e","C","h","a","n","g","e",")",";","\n",
    "}",","," ","[","]",")",";">>

\* four async patterns
CodeAsyncs ==
  <<"f","e","t","c","h","(","u",")",".","t","h","e","n","(","g",")",".","c",
    "a","t","c","h","(","h",")"," ","a","x","i","o","s",".","g","e","t","(",
    "u",")">>

\* four state patterns, three of them hooks
CodeStates ==
  <<"u","s","e","S","t","a","t","e","(","0",")"," ","u","s","e","R","e","d",
    "u","c","e","r","(","r",")"," ","u","s","e","C","o","n","t","e","x","t",
    "(","c",")"," ","s","e","t","S","t","a","t","e","(","x",")">>

\* four plain calls
CodeCalls ==
  <<"f","o","o","(","1",")"," ","b","a","r","(","2",")"," ","b","a","z","(",
    "3",")"," ","q","u","x","(","4",")">>

\* three declarations
CodeDecls ==
  <<"c","o","n","s","t"," ","a"," ","="," ","1",";"," ","l","e","t"," ","b",
    " ","="," ","2",";"," ","v","a","r"," ","c"," ","="," ","3">>

\* code of blanks only
CodeBlank ==
  <<" "," ">>

\* a call and a hook in comments
CodeCommented ==
  <<"/","/"," ","u","s","e","M","e","m","o","(","f",")","\n","b","a","r","(",
    "2",")"," ","/","*"," ","f","e","t","c","h","(","u",")"," ","*","/">>

\* a call of one platform API and a call of one async pattern
CodeFetch == <<"f","e","t","c","h","(","u",")">>

\* short code with none or one token of each of the upper tiers and none or
\* too many of the lower ones, and code that overfills the upper tiers
PatternCodes ==
  {h \o <<" ">> \o a \o <<" ">> \o y \o <<" ">> \o f \o <<" ">> \o d :
     h \in {<< >>, CodeHook}, a \in {<< >>, CodeTimer},
     y \in {<< >>, CodeFetch, CodeAsyncs},
     f \in {<< >>, CodeCalls}, d \in {<< >>, CodeDecls}}
  \cup {CodeHooksK, CodeApisTimeout, CodeStates,
        CodeApisTimeout \o <<" ">> \o CodeStates,
        CodeStates \o <<" ">> \o CodeCalls \o <<" ">> \o CodeDecls,
        CodeEmpty, CodeBlank, CodeListener, CodeCommented}

SuggestedFixes == {<< >>, CodeHook}

InitPattern ==
  \E c \in PatternCodes, fix \in SuggestedFixes :
    InitWith(<< >>, "extract", [current_code |-> c, suggested_fix |-> fix])

Extract ==
  /\ pc = "extract"
  /\ pc' = "extracted"
  /\ ret' = extract_problem_pattern(args.current_code, args.suggested_fix)
  /\ UNCHANGED <<issues, updated, review, corpus, worklist, idx, faults, calls,
                 last, reopenLog, vtrace, args>>

NextPattern == Extract

SpecPattern == InitPattern /\ [][NextPattern]_vars

\* pattern.split('|'): the tokens of a signature
RECURSIVE SplitBar(_)
SplitBar(signature) ==
  IF signature = << >> THEN << >>
  ELSE LET p == MinPos({i \in 1..Len(signature) : signature[i] = "|"})
       IN  IF p = 0 THEN <<signature>>
           ELSE <<Take(signature, p - 1)>> \o SplitBar(Drop(signature, p))

\* the tier tags in the order of the tiers
TierTags ==
  << <<"H","O","O","K",":">>, <<"A","P","I",":">>, <<"A","S","Y","N","C",":">>,
     <<"S","T","A","T","E",":">>, <<"F","N",":">>, <<"V","A","R",":">> >>

\* the number of the tier a token is tagged with, 0 if it has no tag
TierOf(token) == MinPos({k \in 1..Len(TierTags) : HasAt(token, 1, TierTags[k])})

NamedApis(current_code) ==
  {k \in 1..Len(CriticalApis) : Contains(NormalizeCode(current_code), CriticalApis[k])}

\* C39: the signature of the useEffect hook that calls window.addEventListener
\* has a HOOK token, the token API:addeventlistener and the token API:window.;
\* the signature of code that names up to 5 platform APIs has the API token
\* of each of them.
Claim_C39 ==
  pc = "extracted" =>
    LET tokens == Range(SplitBar(ret))
        api(k) == TierTags[2] \o CriticalApis[k]
    IN  /\ args.current_code = CodeListener =>
             /\ \E t \in tokens : TierOf(t) = 1
             /\ api(3) \in tokens
             /\ api(1) \in tokens
        /\ Cardinality(NamedApis(args.current_code)) <= 5 =>
             \A k \in NamedApis(args.current_code) : api(k) \in tokens

====
